---- MODULE Spec2Model ----
(***************************************************************************)
(* Model of the Metanoia EBM management client.                            *)
(*                                                                         *)
(*   Spec   the operational engine (package ebm): listener, reactor and    *)
(*          the callers of Exchange / Dial / ReadMIB / WriteMIB.           *)
(*   SpecB  the bootloader engine (package bootloader): conn.Exchange and  *)
(*          DownloadAndBoot.                                               *)
(*                                                                         *)
(* Time is counted in half periods of the 1-second retransmission timer.   *)
(***************************************************************************)
EXTENDS Integers, Sequences, FiniteSets, TLC

VARIABLES
    \* ---- operational engine (type Conn and its goroutines) ----
    seqNo,          \* Conn.seqNo
    curReq,         \* reactor local: the request in the in-flight slot
    curReqTimer,    \* reactor local timer: "stopped", "armed" or "fired"
    elapsed,        \* half periods since curReqTimer was armed
    age,            \* half periods since the original send of curReq
    rxMsgChan,      \* Conn.rxMsgChan: the buffered frame queue
    rxClosed,       \* close(c.rxMsgChan) has run
    exchReqClosed,  \* close(c.exchReq) has run
    exchResClosed,  \* close(c.exchRes) has run
    exchMutex,      \* Conn.exchMutex: 0 when free, else the holder
    listenerPc,     \* "init", "run", "done"
    reactorPc,      \* "init", "select", "deliver", "drain", "done"
    pendingRes,     \* the value the reactor is sending on exchRes
    pc,             \* per caller: "idle", "lock", "send", "recv", "panic"
    op,             \* per caller: the API call in progress
    last,           \* per caller: outcome of the last finished API call
    dial,           \* progress and outcome of Dial
    sent,           \* sequence numbers written to the socket so far
    origlog,        \* sequence numbers of the original sends, in order
    lasttx,         \* the last frame written to the socket by the reactor
    nframes,        \* frames read by the listener so far
    nevents,        \* events handled since the request in the slot was written
    ncalls,         \* Exchange calls started so far
    \* ---- bootloader engine (type conn and DownloadAndBoot) ----
    bseqNo,         \* conn.seqNo
    baddr,          \* conn.addr
    bstep,          \* position of DownloadAndBoot
    brec,           \* index of the firmware line being processed
    bi,             \* loop variable i of conn.Exchange
    bwait,          \* conn.Exchange is blocked in ReadFrom
    breq,           \* the request of the running conn.Exchange
    bres,           \* what the last conn.Exchange returned
    bin,            \* what the last ReadFrom of conn.Exchange produced
    firmware,       \* the lines of the S-Record source
    btxlog,         \* every frame written to the socket by conn.Exchange
    osn,            \* XorStream.n of DownloadAndBoot's key stream
    bdone,          \* the exchanges that returned, with their outcome
    \* ---- frame codecs (MarshalBinary, ParseMessage / parseMessage) ----
    cin,            \* the message given to MarshalBinary
    cwire,          \* the byte slice given to the parser
    cout,           \* what the parser returned
    \* ---- firmware pack decoder (fwutil main) ----
    pack,           \* the firmware pack read
    ppc,            \* position of main, or how it ended
    pidx,           \* loop variable i of the scan of the metadata slots
    pslots,         \* metadata slots read so far
    ptr,            \* ptr of the record loop
    pout,           \* the S-records written to the output
    \* ---- OID codec (OID.MarshalBinary, MarshalOID, ParseOID) ----
    oin,            \* the OID and the value given to the marshaller
    owire,          \* what the marshaller returned
    oout,           \* what ParseOID returned for it
    \* ---- S-record parser (srec.ParseGeneric) ----
    sin,            \* the line given to ParseGeneric, and what it was made of
    sout            \* what ParseGeneric returned

ovars == <<seqNo, curReq, curReqTimer, elapsed, age, rxMsgChan, rxClosed,
           exchReqClosed, exchResClosed, exchMutex, listenerPc, reactorPc,
           pendingRes, pc, op, last, dial, sent, origlog, lasttx, 
           nframes, nevents, ncalls>>

bvars == <<bseqNo, baddr, bstep, brec, bi, bwait, breq, bres, bin, firmware,
           btxlog, osn, bdone>>

cvars == <<cin, cwire, cout>>

fvars == <<pack, ppc, pidx, pslots, ptr, pout>>

oidvars == <<oin, owire, oout>>

\* The variables of the codecs and of the firmware pack decoder.
svars == <<sin, sout>>

pvars == <<cvars, fvars, oidvars, svars>>

vars == <<ovars, bvars, pvars>>

-----------------------------------------------------------------------------
(* Bounds of the exploration *)

NCallers == 2       \* concurrent callers of the operational API
MaxCalls == 3       \* Exchange calls started in one behaviour
MaxFrames == 2      \* frames the listener reads in one behaviour
MaxQueue == 2       \* modelled capacity of rxMsgChan (the source has 10)
MaxAge == 5         \* half periods a request is followed while in flight
MaxAgeApi == 2      \* the same, in the API slice

Callers == 1..NCallers

-----------------------------------------------------------------------------
(* Wire constants of the operational protocol *)

StatusOk == 0
StatusAccessDenied == 18
StatusQuestion == 224
StatusAnswerCorrect == 225
StatusAnswerWrong == 226
StatusOccupied == 227
StatusForcedConnect == 228
StatusDefault == 255

TypeReadMIB == 6
TypeWriteMIB == 7
TypeConnect == 49
TypeConsoleOutput == 96
TypeLoggerOutput == 97
TypeDeviceDisconnect == 112
TypeConnectResp == 177

TimerPeriod == 2            \* 1 * time.Second, in half periods
InitialSeqNo == 2

ListenerBufLen == 1514      \* make([]byte, 1514)
PayloadOffset == 8          \* data[8 : payloadLen+8]
LogTypeEnd == 22            \* res.Payload[20:22]
LogValueEnd == 28           \* res.Payload[24:28]
ChallengeEnd == 8           \* res.Payload[4:8]

\* cap(res.Payload): the payload of a received frame is a slice of the
\* listener's buffer and reaches to the end of that buffer.
PayloadCap == ListenerBufLen - PayloadOffset

\* The slice expression bounded by the length of an empty payload.
SliceWithinLen(hi) == hi <= 0

\* The slice expression res.Payload[lo:hi] is in range: hi may pass
\* len(res.Payload) but not cap(res.Payload).
SliceInRange(hi) == hi <= PayloadCap


-----------------------------------------------------------------------------
(* Messages of the operational protocol.  A payload is kept as its class:  *)
(* "good" (long enough for what the reader takes from it and well formed)  *)
(* or "short" (empty).                                                     *)

Frame(t, s, st, p) == [typ |-> t, seq |-> s, status |-> st, pay |-> p]

NoMsg == Frame(0, 0, 0, "nil")          \* the nil *Message
ClosedMsg == Frame(0, 0, 0, "closed")   \* receive from the closed exchRes

NoReq == [typ |-> 0, seq |-> 0, owner |-> 0, status |-> 0, payload |-> <<>>]

NoTx == [seq |-> 0, orig |-> FALSE, n |-> 0]

\* The events of the device.  The LoggerOutput event comes with an empty
\* payload, the shortest its handler can meet.
EventFrames == {Frame(t, 0, StatusDefault, "good") :
                  t \in {TypeConsoleOutput, TypeDeviceDisconnect}}
               \cup {Frame(TypeLoggerOutput, 0, StatusDefault, "short")}

\* Frames the decoder does not parse: one of 6 bytes, shorter than the 7
\* bytes ParseMessage asks for, and one of 7 bytes, without the status byte.
UnparsedFrames == {Frame(0, 0, 0, "tooshort"), Frame(0, 0, 0, "seven")}

\* res, err := ParseMessage(rxMsg) on a received frame: "error" for
\* len(data) < 7, "panic" for data[7] on 7 bytes, else "ok".
ParseKind(f) ==
    CASE f.pay = "tooshort" -> "error"
      [] f.pay = "seven" -> "panic"
      [] OTHER -> "ok"

\* The event with which the device ends the session.
DisconnectFrames == {Frame(TypeDeviceDisconnect, 0, StatusDefault, "good")}

\* Kinds of response <<type, status, payload class>> of the device.
\* SessionKinds: a device that accepts every request.
SessionKinds == {<<TypeConnectResp, StatusForcedConnect, "good">>,
                 <<TypeWriteMIB, StatusOk, "good">>}

\* ApiKinds: every status Dial tells apart, and for the MIB types success
\* and refusal; a Question or a success may come with an empty payload.  A
\* Question with a payload carries the challenge the default handler knows.
ApiKinds ==
    {<<TypeConnectResp, st, "good">> :
        st \in {StatusQuestion, StatusAnswerCorrect, StatusAnswerWrong,
                StatusOccupied, StatusForcedConnect}}
    \cup {<<TypeConnectResp, StatusQuestion, "short">>}
    \cup {<<t, st, "good">> : t \in {TypeReadMIB, TypeWriteMIB},
                              st \in {StatusOk, StatusAccessDenied}}
    \cup {<<TypeReadMIB, StatusOk, "short">>}

\* Frames the device can send: events at any time, and responses of the
\* given kinds carrying one of the given sequence numbers.
DeviceFrames(events, kinds, seqs) ==
    events \cup {Frame(k[1], s, k[2], k[3]) : k \in kinds, s \in seqs}

\* Sequence numbers the device has seen on the wire: it can answer any of
\* them, also late or more than once.
SentSeqs == sent

\* The sequence number of the request written last.
LatestSeq == IF lasttx.n > 0 THEN {lasttx.seq} ELSE {}

OpType(o) == IF o \in {"dial1", "dial2"} THEN TypeConnect
             ELSE IF o = "read" THEN TypeReadMIB ELSE TypeWriteMIB

NoDial == [first |-> -1, second |-> -1, result |-> "none", connects |-> 0,
           challenge |-> <<>>, answer |-> <<>>]

NoOutcome == [op |-> "none", res |-> NoMsg, out |-> "none"]

\* A panic in any goroutine ends the whole process.
Running == reactorPc # "panic" /\ \A c \in Callers : pc[c] # "panic"

-----------------------------------------------------------------------------
(* NewConn *)

InitO ==
    /\ seqNo = InitialSeqNo
    /\ curReq = NoReq
    /\ curReqTimer = "stopped"
    /\ elapsed = 0
    /\ age = 0
    /\ rxMsgChan = <<>>
    /\ rxClosed = FALSE
    /\ exchReqClosed = FALSE
    /\ exchResClosed = FALSE
    /\ exchMutex = 0
    /\ listenerPc = "init"
    /\ reactorPc = "init"
    /\ pendingRes = NoMsg
    /\ pc = [c \in Callers |-> "idle"]
    /\ op = [c \in Callers |-> "none"]
    /\ last = [c \in Callers |-> NoOutcome]
    /\ dial = NoDial
    /\ sent = {}
    /\ origlog = <<>>
    /\ lasttx = NoTx
    /\ nframes = 0
    /\ nevents = 0
    /\ ncalls = 0

-----------------------------------------------------------------------------
(* listener *)

ListenerRead(f) ==
    /\ Running
    /\ listenerPc = "run"
    /\ nframes < MaxFrames
    /\ Len(rxMsgChan) < MaxQueue
    /\ rxMsgChan' = Append(rxMsgChan, f)
    /\ nframes' = nframes + 1
    /\ UNCHANGED <<nevents, seqNo, curReq, curReqTimer, elapsed, age, rxClosed,
                   exchReqClosed, exchResClosed, exchMutex, listenerPc,
                   reactorPc, pendingRes, pc, op, last, dial, sent, origlog, lasttx, 
                   ncalls>>

ListenerError ==
    /\ Running
    /\ listenerPc = "run"
    /\ rxClosed' = TRUE
    /\ listenerPc' = "done"
    /\ UNCHANGED <<seqNo, curReq, curReqTimer, elapsed, age, rxMsgChan,
                   exchReqClosed, exchResClosed, exchMutex, reactorPc,
                   pendingRes, pc, op, last, dial, sent, origlog, lasttx, 
                   nframes, nevents, ncalls>>

-----------------------------------------------------------------------------
(* reactor *)

\* 32-bit words as their four bytes, most significant first.
FirstAnswer == <<255, 255, 255, 255>>       \* 0xffffffff
KnownChallenge == <<149, 116, 57, 38>>      \* 0x95743926
KnownAnswer == <<110, 111, 105, 97>>        \* 0x6e6f6961
ZeroWord == <<0, 0, 0, 0>>
FirstFlags == 60                            \* 0x3c

\* The handler answers nothing.
ChallengeUnanswered(ch) == ZeroWord

\* DefaultChallengeHandler, which NewConn installs as c.HandleChallenge
DefaultChallengeHandler(ch) == IF ch = KnownChallenge THEN KnownAnswer ELSE ZeroWord

\* res.Payload[4:8] of a Question response.  Behind an empty payload lie the
\* padding bytes of the frame in the listener's buffer, zero here.
Challenge(res) == IF res.pay = "good" THEN KnownChallenge ELSE ZeroWord

\* The message connect hands to Exchange: PutUint32(p[:4], challangeRes),
\* PutUint32(p[4:], flags), for flags below 256.
connect(challangeRes, flags) ==
    [typ |-> TypeConnect, status |-> StatusDefault,
     payload |-> challangeRes \o <<0, 0, 0, flags>>]

\* The message the API call o hands to Exchange.  The payload of a MIB
\* request, an OID in wire form, is left to the OID codec.
Request(o) ==
    IF o = "dial1" THEN connect(FirstAnswer, FirstFlags)
    ELSE IF o = "dial2" THEN connect(dial.answer, 0)
    ELSE [typ |-> OpType(o),
          status |-> StatusDefault, payload |-> <<>>]

\* req.SequenceNumber = c.seqNo
StampedSeq == seqNo

\* The counter is not advanced.
SeqNotAdvanced(s) == s

\* c.seqNo++ (a uint32: the wrap at 2^32 is not reached within MaxCalls sends)
SeqAfterSend(s) == s + 1

\* A failed send uses up the sequence number.
SeqConsumed(s) == s + 1

\* continue after a failed marshal or send: c.seqNo++ is not reached
SeqAfterFailure(s) == s

\* The timer is left as it is after a retransmission.
TimerNotReset == "stopped"

\* curReqTimer.Reset(1 * time.Second) after a retransmission
TimerAfterResend == "armed"

\* The reactor goes back to its select after the disconnect notice.
DisconnectIgnored == "select"

\* case TypeDeviceDisconnect: close(c.exchReq); return
DisconnectReturn == "done"

\* case TypeLoggerOutput: the log type and, for types 1 and 4, the value are
\* sliced out of the payload and printed.
LoggerOutput == IF SliceInRange(LogTypeEnd) /\ SliceInRange(LogValueEnd)
                  THEN "printed" ELSE "panic"

\* After a parse error res is nil: the error is logged, and switch res.Type
\* dereferences the nil pointer.
ParseErrorSwitch == "panic"

\* case rxMsg, ok := <-c.rxMsgChan, with ok: one frame is taken and handled.
ReactorFrame ==
    /\ Running
    /\ reactorPc = "select"
    /\ rxMsgChan # <<>>
    /\ LET res == Head(rxMsgChan) IN
       /\ rxMsgChan' = Tail(rxMsgChan)
       /\ nevents' = IF res.typ \in {TypeConsoleOutput, TypeLoggerOutput}
                       /\ curReq # NoReq
                      THEN nevents + 1 ELSE nevents
       /\ IF ParseKind(res) = "panic"
            THEN /\ reactorPc' = "panic"
                 /\ UNCHANGED <<pendingRes, exchReqClosed>>
          ELSE IF ParseKind(res) = "error"
            THEN /\ reactorPc' = ParseErrorSwitch
                 /\ UNCHANGED <<pendingRes, exchReqClosed>>
          ELSE IF res.typ = TypeConsoleOutput
            THEN UNCHANGED <<reactorPc, pendingRes, exchReqClosed>>
          ELSE IF res.typ = TypeLoggerOutput
            THEN /\ reactorPc' = IF LoggerOutput = "panic" THEN "panic" ELSE reactorPc
                 /\ UNCHANGED <<pendingRes, exchReqClosed>>
          ELSE IF res.typ = TypeDeviceDisconnect
            THEN /\ exchReqClosed' = TRUE
                 /\ reactorPc' = DisconnectReturn
                 /\ UNCHANGED pendingRes
          ELSE IF curReq = NoReq
            THEN UNCHANGED <<reactorPc, pendingRes, exchReqClosed>>
          ELSE /\ reactorPc' = "deliver"      \* c.exchRes <- res
               /\ pendingRes' = res
               /\ UNCHANGED exchReqClosed
    /\ UNCHANGED <<seqNo, curReq, curReqTimer, elapsed, age, rxClosed,
                   exchResClosed, exchMutex, listenerPc, pc, op, last, dial,
                   sent, origlog, lasttx, 
                   nframes, ncalls>>

\* case rxMsg, ok := <-c.rxMsgChan, with !ok: the queue is closed and drained.
ReactorQueueClosed ==
    /\ Running
    /\ reactorPc = "select"
    /\ rxMsgChan = <<>>
    /\ rxClosed
    /\ exchResClosed' = TRUE
    /\ reactorPc' = "done"
    /\ UNCHANGED <<seqNo, curReq, curReqTimer, elapsed, age, rxMsgChan,
                   rxClosed, exchReqClosed, exchMutex, listenerPc, pendingRes,
                   pc, op, last, dial, sent, origlog, lasttx, 
                   nframes, nevents, ncalls>>

\* case req := <-c.exchReq: the rendezvous with caller c blocked in
\* c.exchReq <- req; sendOk is the outcome of WriteTo.
ReactorRequest(c, sendOk) ==
    /\ Running
    /\ reactorPc = "select"
    /\ pc[c] = "send"
    /\ ~exchReqClosed
    /\ pc' = [pc EXCEPT ![c] = "recv"]
    /\ IF sendOk
         THEN /\ sent' = sent \cup {StampedSeq}
              /\ origlog' = Append(origlog, StampedSeq)
              /\ lasttx' = [seq |-> StampedSeq, orig |-> TRUE, n |-> 1]
              /\ seqNo' = SeqAfterSend(seqNo)
              /\ curReq' = [typ |-> Request(op[c]).typ, seq |-> StampedSeq,
                            owner |-> c, status |-> Request(op[c]).status,
                            payload |-> Request(op[c]).payload]
              /\ curReqTimer' = "armed"
              /\ elapsed' = 0
              /\ age' = 0
              /\ nevents' = 0
              /\ UNCHANGED <<reactorPc, pendingRes>>
         ELSE /\ reactorPc' = "deliver"     \* c.exchRes <- nil
              /\ pendingRes' = NoMsg
              /\ seqNo' = SeqAfterFailure(seqNo)
              /\ UNCHANGED <<sent, origlog, lasttx, curReq, curReqTimer,
                             elapsed, age, nevents>>
    /\ UNCHANGED <<rxMsgChan, rxClosed, exchReqClosed, exchResClosed,
                   exchMutex, listenerPc, op, last, dial,  nframes,
                   ncalls>>

\* case <-curReqTimer.C
ReactorTimer(sendOk) ==
    /\ Running
    /\ reactorPc = "select"
    /\ curReqTimer = "fired"
    /\ IF sendOk
         THEN /\ sent' = sent \cup {curReq.seq}
              /\ lasttx' = [seq |-> curReq.seq, orig |-> FALSE,
                            n |-> IF lasttx.seq = curReq.seq THEN lasttx.n + 1 ELSE 1]
              /\ curReqTimer' = TimerAfterResend
              /\ elapsed' = 0
              /\ UNCHANGED <<reactorPc, pendingRes>>
         ELSE /\ reactorPc' = "deliver"     \* c.exchRes <- nil
              /\ pendingRes' = NoMsg
              /\ curReqTimer' = "stopped"
              /\ UNCHANGED <<sent, lasttx, elapsed>>
    /\ UNCHANGED <<seqNo, curReq, age, rxMsgChan, rxClosed, exchReqClosed,
                   exchResClosed, exchMutex, listenerPc, pc, op, last, dial,
                   origlog,  nframes, nevents, ncalls>>

\* Passage of half a timer period, followed up to maxAge half periods per
\* request.  The reactor takes an expired timer before more time passes.
Tick(maxAge) ==
    /\ Running
    /\ curReq # NoReq
    /\ age < maxAge
    /\ ~(curReqTimer = "fired" /\ reactorPc = "select")
    /\ age' = age + 1
    /\ IF curReqTimer = "armed"
         THEN /\ elapsed' = elapsed + 1
              /\ curReqTimer' = IF elapsed + 1 >= TimerPeriod THEN "fired" ELSE "armed"
         ELSE UNCHANGED <<elapsed, curReqTimer>>
    /\ UNCHANGED <<seqNo, curReq, rxMsgChan, rxClosed, exchReqClosed,
                   exchResClosed, exchMutex, listenerPc, reactorPc, pendingRes,
                   pc, op, last, dial, sent, origlog, lasttx, 
                   nframes, nevents, ncalls>>

-----------------------------------------------------------------------------
(* Exchange and the API calls built on it *)

\* Exchange returned an error: res is nil, or exchRes was closed.
IsErr(res) == res.pay \in {"nil", "closed"}

\* Only ForcedConnect counts as connected.
ConnectedForcedOnly(st) == st = StatusForcedConnect

\* res.Status == StatusForcedConnect || res.Status == StatusAnswerCorrect
Connected(st) == st \in {StatusForcedConnect, StatusAnswerCorrect}

\* ParseOID on the payload of a response
ParseOIDOk(res) == res.pay = "good"

\* Dial after the first connect returned.  "again": the second connect is
\* issued; "panic": res.Payload[4:8] is out of range, which needs a payload
\* whose capacity is below 8: the challenge of a shorter payload is read from
\* the bytes behind it in the listener's buffer.
DialFirst(res) ==
    IF IsErr(res) THEN "error"
    ELSE IF Connected(res.status) THEN "ok"
    ELSE IF res.status = StatusQuestion
      THEN (IF SliceInRange(ChallengeEnd) THEN "again" ELSE "panic")
    ELSE "failed"

\* Dial after the second connect returned.
DialSecond(res) ==
    IF IsErr(res) THEN "error"
    ELSE IF Connected(res.status) THEN "ok"
    ELSE "failed"

\* ReadMIB ("read") and WriteMIB ("write") after Exchange returned.  The
\* expected type handed to Exchange is not looked at by Exchange.
MIBOutcome(o, res) ==
    IF IsErr(res) THEN "error"
    ELSE IF res.status # StatusOk THEN "error"
    ELSE IF o = "write" THEN "ok"
    ELSE IF ParseOIDOk(res) THEN "value"
    ELSE "error"

Outcome(o, res) ==
    CASE o = "dial1" -> DialFirst(res)
      [] o = "dial2" -> DialSecond(res)
      [] OTHER -> MIBOutcome(o, res)

StatusOf(res) == IF IsErr(res) THEN -2 ELSE res.status

\* The rest of Exchange after res, ok := <-c.exchRes (with the deferred
\* Unlock), and the rest of the API call that called it.
Return(c, res) ==
    LET out == Outcome(op[c], res) IN
    /\ exchMutex' = 0
    /\ pc' = [pc EXCEPT ![c] = IF out = "again" THEN "lock"
                               ELSE IF out = "panic" THEN "panic" ELSE "idle"]
    /\ op' = [op EXCEPT ![c] = IF out = "again" THEN "dial2" ELSE "none"]
    /\ ncalls' = IF out = "again" THEN ncalls + 1 ELSE ncalls
    /\ dial' = IF op[c] = "dial1"
                 THEN [dial EXCEPT !.first = StatusOf(res),
                                   !.result = IF out = "again" THEN "none" ELSE out,
                                   !.connects = IF out = "again" THEN 2 ELSE 1,
                                   !.challenge = IF out = "again" THEN Challenge(res)
                                                 ELSE @,
                                   !.answer = IF out = "again"
                                                THEN DefaultChallengeHandler(Challenge(res))
                                              ELSE @]
               ELSE IF op[c] = "dial2"
                 THEN [dial EXCEPT !.second = StatusOf(res), !.result = out]
               ELSE dial
    /\ last' = [last EXCEPT ![c] =
                  IF out = "again" THEN @
                  ELSE [op |-> op[c], res |-> res, out |-> out]]

\* Lock returns at once: no mutual exclusion.
TryLockNoMutex(c) == TRUE

\* c.exchMutex.Lock() can return
TryLock(c) == exchMutex = 0

\* An API call starts.  Dial starts the listener and the reactor and is made
\* once, by caller 1; ReadMIB and WriteMIB are made on a connected session.
Call(c, o) ==
    /\ Running
    /\ pc[c] = "idle"
    /\ ncalls < MaxCalls
    /\ IF o = "dial1"
         THEN /\ c = 1
              /\ reactorPc = "init"
              /\ listenerPc' = "run"
              /\ reactorPc' = "select"
              /\ dial' = [dial EXCEPT !.connects = 1]
         ELSE /\ dial.result = "ok"
              /\ UNCHANGED <<listenerPc, reactorPc, dial>>
    /\ pc' = [pc EXCEPT ![c] = "lock"]
    /\ op' = [op EXCEPT ![c] = o]
    /\ ncalls' = ncalls + 1
    /\ UNCHANGED <<seqNo, curReq, curReqTimer, elapsed, age, rxMsgChan,
                   rxClosed, exchReqClosed, exchResClosed, exchMutex,
                   pendingRes, last, sent, origlog, lasttx, 
                   nframes, nevents>>

\* c.exchMutex.Lock()
Lock(c) ==
    /\ Running
    /\ pc[c] = "lock"
    /\ TryLock(c)
    /\ exchMutex' = c
    /\ pc' = [pc EXCEPT ![c] = "send"]
    /\ UNCHANGED <<seqNo, curReq, curReqTimer, elapsed, age, rxMsgChan,
                   rxClosed, exchReqClosed, exchResClosed, listenerPc,
                   reactorPc, pendingRes, op, last, dial, sent, origlog, lasttx, 
                   nframes, nevents,
                   ncalls>>

\* c.exchReq <- req on the closed channel panics.
SendOnClosed(c) ==
    /\ Running
    /\ pc[c] = "send"
    /\ exchReqClosed
    /\ pc' = [pc EXCEPT ![c] = "panic"]
    /\ UNCHANGED <<seqNo, curReq, curReqTimer, elapsed, age, rxMsgChan,
                   rxClosed, exchReqClosed, exchResClosed, exchMutex,
                   listenerPc, reactorPc, pendingRes, op, last, dial, sent, origlog, lasttx, 
                   nframes, nevents, ncalls>>

\* The rendezvous on exchRes: caller c takes the value the reactor sends; the
\* reactor goes on after its send: for a response it stops the timer (and
\* waits on its channel if it had expired and been taken) and empties the slot.
Receive(c) ==
    /\ Running
    /\ pc[c] = "recv"
    /\ reactorPc = "deliver"
    /\ Return(c, pendingRes)
    /\ pendingRes' = NoMsg
    /\ IF pendingRes = NoMsg
         THEN /\ reactorPc' = "select"
              /\ UNCHANGED <<curReq, curReqTimer, elapsed, age, nevents>>
         ELSE IF curReqTimer # "stopped"
           THEN /\ reactorPc' = "select"
                /\ curReqTimer' = "stopped"
                /\ curReq' = NoReq
                /\ elapsed' = 0
                /\ age' = 0
                /\ nevents' = 0
         ELSE /\ reactorPc' = "drain"       \* <-curReqTimer.C never returns
              /\ UNCHANGED <<curReq, curReqTimer, elapsed, age, nevents>>
    /\ UNCHANGED <<seqNo, rxMsgChan, rxClosed, exchReqClosed, exchResClosed,
                   listenerPc, sent, origlog, lasttx, 
                   nframes>>

\* res, ok := <-c.exchRes with !ok
ReceiveClosed(c) ==
    /\ Running
    /\ pc[c] = "recv"
    /\ exchResClosed
    /\ Return(c, ClosedMsg)
    /\ UNCHANGED <<seqNo, curReq, curReqTimer, elapsed, age, rxMsgChan,
                   rxClosed, exchReqClosed, exchResClosed, listenerPc,
                   reactorPc, pendingRes, sent, origlog, lasttx, 
                   nframes, nevents>>

-----------------------------------------------------------------------------
(* The bootloader engine.  A firmware source is the sequence of the kinds   *)
(* of its lines: "S3" (a data record), "S0" (a record of another type,      *)
(* skipped) or "bad" (a line ParseGeneric rejects).  A response is          *)
(* [seq, typ, st], st being Payload[0], or -1 when the payload is empty.    *)

MaxLines == 2           \* lines of the firmware source

typeAssociateReq == 1
typeAssociateRes == 2
typeDownloadBegin == 17
typeDownloadRecord == 18
typeDownloadEnd == 19
typeAck == 20

\* The loop runs once more.
MaxTriesSix == 5 + 1

\* for i := 0; i < 5; i++
MaxTries == 5

SeqModulusB == 65536    \* conn.seqNo is a uint16

MaxDataLen == 62        \* data bytes of an S3 line of the firmware source

NoBReq == [typ |-> 0, seq |-> 0, rec |-> 0, x |-> 0, payload |-> <<>>]

\* The key of the XorStream, hex.DecodeString("b4df1573...").
Key ==
    <<180, 223, 21, 115, 105, 190, 42, 231, 211, 124, 85, 206, 166, 248, 171, 157,
      77, 241, 87, 59, 155, 226, 174, 118, 55, 197, 92, 237, 111, 138, 185, 218,
      223, 21, 115, 180, 190, 42, 231, 105, 124, 85, 206, 211, 248, 171, 157, 166,
      241, 87, 59, 77, 226, 174, 118, 155, 197, 92, 237, 55, 138, 185, 218, 111,
      21, 115, 180, 223, 42, 231, 105, 190, 85, 206, 211, 124, 171, 157, 166, 248,
      87, 59, 77, 241, 174, 118, 155, 226, 92, 237, 55, 197, 185, 218, 111, 138,
      115, 180, 223, 21, 231, 105, 190, 42, 206, 211, 124, 85, 157, 166, 248, 171,
      59, 77, 241, 87, 118, 155, 226, 174, 237, 55, 197, 92, 218, 111, 138, 185>>

RECURSIVE XorBits(_, _)
\* a ^ b, bit by bit
XorBits(a, b) ==
    IF a = 0 THEN b
    ELSE IF b = 0 THEN a
    ELSE ((a + b) % 2) + (2 * XorBits(a \div 2, b \div 2))

\* a ^ b on bytes, tabulated
XorTable == [a \in 0..255 |-> [b \in 0..255 |-> XorBits(a, b)]]
Xor(a, b) == XorTable[a][b]

\* The key phase starts anew with every write.
PhaseReset(n, len) == 0

\* s.n++ for every byte written
PhaseAfter(n, len) == n + len

\* XorStream.Write(data) with s.n = n: what reaches the buffer.
XorStreamWrite(n, data) ==
    [i \in 1..Len(data) |-> Xor(data[i], Key[((n + i - 1) % Len(Key)) + 1])]

\* What ParseGeneric returns for S3 line j of the firmware source: the
\* address and the data of the record.
LineAddr(j) == <<16, 0, j, 0>>
LineData(j) == [i \in 1..MaxDataLen |-> (37 * j + 11 * i) % 256]

\* uint32(len(data)/4), as binary.Write puts it
WordCount(data) == <<0, 0, 0, Len(data) \div 4>>

\* os.Write(addr); binary.Write(&os, ..., uint32(len(data)/4)); os.Write(data)
\* with os.n = n: the bytes in buf, the payload of the DownloadRecord.
RecordPayload(n, j) ==
    LET n1 == PhaseAfter(n, Len(LineAddr(j)))
        n2 == PhaseAfter(n1, Len(WordCount(LineData(j))))
    IN  XorStreamWrite(n, LineAddr(j))
          \o XorStreamWrite(n1, WordCount(LineData(j)))
          \o XorStreamWrite(n2, LineData(j))

\* os.n after the three writes
RecordPhase(n, j) ==
    PhaseAfter(PhaseAfter(PhaseAfter(n, Len(LineAddr(j))),
                          Len(WordCount(LineData(j)))),
               Len(LineData(j)))
NoBFrame == [seq |-> 0, typ |-> 0, st |-> 0]
NoBRes == [kind |-> "none", frame |-> NoBFrame]
NoBIn == [kind |-> "none", seq |-> 0]

Exchanging == bstep \in {"assoc", "begin", "record", "end"}

\* Responses that can be read while a request is out: to this request or to
\* the one before it (a late or duplicated response).
BFrames ==
    {[seq |-> q, typ |-> t, st |-> st] :
        q \in {breq.seq, (breq.seq + SeqModulusB - 1) % SeqModulusB},
        t \in {typeAssociateRes, typeAck}, st \in {0, 1, -1}}

\* The counter is not advanced.
BSeqStuck(q) == q

\* req.SequenceNumber = c.seqNo; c.seqNo++
BSeqAfter(q) == (q + 1) % SeqModulusB

\* Every response is taken for an Ack exchange.
ExpectedAck(t) == typeAck

\* The type DownloadAndBoot expects in answer to request type t.
Expected(t) == IF t = typeAssociateReq THEN typeAssociateRes ELSE typeAck

\* The first line at or after i that is not skipped; Len + 1 at the end.
NextLine(i) ==
    IF \E j \in i..Len(firmware) : firmware[j] # "S0"
      THEN CHOOSE j \in i..Len(firmware) :
             /\ firmware[j] # "S0"
             /\ \A k \in i..(j - 1) : firmware[k] = "S0"
      ELSE Len(firmware) + 1

\* conn.Exchange is entered with a request of type t (for line r): the
\* request is stamped and the counter advanced before anything is sent.
BeginExchange(step, t, r) ==
    /\ bstep' = step
    /\ brec' = r
    /\ breq' = [typ |-> t, seq |-> bseqNo, rec |-> r, x |-> breq.x + 1,
                payload |-> IF t = typeDownloadRecord THEN RecordPayload(osn, r)
                            ELSE <<>>]
    /\ osn' = IF t = typeDownloadRecord THEN RecordPhase(osn, r) ELSE osn
    /\ bseqNo' = BSeqAfter(bseqNo)
    /\ bi' = 0
    /\ bwait' = FALSE

\* The firmware loop from line i on: the next S3 record is exchanged, a bad
\* line ends the download, the end of the source leads to DownloadEnd.
ScanFrom(i) ==
    LET j == NextLine(i) IN
    IF j > Len(firmware) THEN BeginExchange("end", typeDownloadEnd, j)
    ELSE IF firmware[j] = "S3" THEN BeginExchange("record", typeDownloadRecord, j)
    ELSE /\ bstep' = "failed"
         /\ brec' = j
         /\ UNCHANGED <<breq, osn, bseqNo, bi, bwait>>

\* The address is left as it was.
SetAddrIgnored(newAddr) == baddr' = baddr

\* c.SetAddr(newAddr)
SetAddr(newAddr) == baddr' = newAddr

\* Any frame read is taken as the answer.
SeqAlwaysMatches(f) == TRUE

\* res.SequenceNumber != req.SequenceNumber is false
SeqMatches(f) == f.seq = breq.seq

\* The status byte of the response is not looked at.
AcceptedAnyStatus(r) ==
    /\ r.kind = "response"
    /\ r.frame.typ = Expected(breq.typ)

\* DownloadAndBoot accepts the result of an exchange.
Accepted(r) ==
    /\ r.kind = "response"
    /\ r.frame.typ = Expected(breq.typ)
    /\ r.frame.st = 0

\* conn.Exchange returns r, and DownloadAndBoot goes on to its next step.
BReturn(r) ==
    /\ bres' = r
    /\ bdone' = Append(bdone, [x |-> breq.x, typ |-> breq.typ, rec |-> breq.rec,
                               seq |-> breq.seq, kind |-> r.kind, frame |-> r.frame,
                               tries |-> Cardinality({k \in 1..Len(btxlog) :
                                                        btxlog[k].x = breq.x})])
    /\ IF r.kind # "response" \/ r.frame.typ # Expected(breq.typ)
         THEN /\ bstep' = "failed"
              /\ UNCHANGED <<brec, breq, osn, bseqNo, bi, bwait, baddr>>
       ELSE IF r.frame.st = -1                  \* res.Payload[0] out of range
         THEN /\ bstep' = "panic"
              /\ UNCHANGED <<brec, breq, osn, bseqNo, bi, bwait, baddr>>
       ELSE IF ~Accepted(r)
         THEN /\ bstep' = "failed"
              /\ UNCHANGED <<brec, breq, osn, bseqNo, bi, bwait, baddr>>
       ELSE IF bstep = "assoc"
         THEN /\ SetAddr("assigned")            \* c.SetAddr(hwAddr)
              /\ BeginExchange("begin", typeDownloadBegin, 0)
       ELSE IF bstep = "begin"
         THEN /\ ScanFrom(1)
              /\ UNCHANGED baddr
       ELSE IF bstep = "record"
         THEN /\ ScanFrom(brec + 1)
              /\ UNCHANGED baddr
       ELSE /\ bstep' = "done"
            /\ UNCHANGED <<brec, breq, osn, bseqNo, bi, bwait, baddr>>

\* An attempt ended without a result: i++, and the loop ends after MaxTries.
NextAttempt ==
    IF bi + 1 < MaxTries
      THEN /\ bi' = bi + 1
           /\ bwait' = FALSE
           /\ UNCHANGED <<bstep, brec, breq, osn, bres, bseqNo, baddr, bdone>>
      ELSE BReturn([kind |-> "timeout", frame |-> NoBFrame])

InitB ==
    /\ bseqNo = 1
    /\ baddr = "default"
    /\ bstep = "start"
    /\ brec = 0
    /\ bi = 0
    /\ bwait = FALSE
    /\ breq = NoBReq
    /\ bres = NoBRes
    /\ bin = NoBIn
    /\ firmware \in UNION {[1..n -> {"S3", "S0", "bad"}] : n \in 0..MaxLines}
    /\ btxlog = <<>>
    /\ osn = 0
    /\ bdone = <<>>

\* DownloadAndBoot calls c.Exchange(associateRequest(hwAddr)).
BStart ==
    /\ bstep = "start"
    /\ BeginExchange("assoc", typeAssociateReq, 0)
    /\ UNCHANGED <<baddr, bres, bin, firmware, btxlog, bdone>>

\* c.c.WriteTo(reqRaw, c.addr), then the read deadline is set.
BSend(sendOk) ==
    /\ Exchanging
    /\ ~bwait
    /\ bi < MaxTries
    /\ IF sendOk
         THEN /\ btxlog' = Append(btxlog, [typ |-> breq.typ, seq |-> breq.seq,
                                           rec |-> breq.rec, x |-> breq.x,
                                           addr |-> baddr,
                                           payload |-> breq.payload])
              /\ bwait' = TRUE
              /\ UNCHANGED <<bstep, brec, bi, breq, osn, bres, bseqNo, baddr, bdone>>
         ELSE /\ btxlog' = btxlog
              /\ BReturn([kind |-> "senderr", frame |-> NoBFrame])
    /\ UNCHANGED <<bin, firmware>>

\* ReadFrom fails with os.ErrDeadlineExceeded.
BTimeout ==
    /\ Exchanging
    /\ bwait
    /\ bin' = [kind |-> "deadline", seq |-> 0]
    /\ NextAttempt
    /\ UNCHANGED <<firmware, btxlog>>

\* ReadFrom fails with another error.
BReadError ==
    /\ Exchanging
    /\ bwait
    /\ bin' = [kind |-> "error", seq |-> 0]
    /\ BReturn([kind |-> "readerr", frame |-> NoBFrame])
    /\ UNCHANGED <<firmware, btxlog>>

\* ReadFrom returns the frame f.
BRead(f) ==
    /\ Exchanging
    /\ bwait
    /\ bin' = [kind |-> "frame", seq |-> f.seq]
    /\ IF ~SeqMatches(f)
         THEN NextAttempt
         ELSE BReturn([kind |-> "response", frame |-> f])
    /\ UNCHANGED <<firmware, btxlog>>

\* No message, no slice, no result.
NoCFrame == [proto |-> "none", typ |-> 0, seq |-> 0, status |-> 0, payload |-> <<>>]
NoSlice == [proto |-> "none", buf |-> <<>>, n |-> 0]
NoCOut == [kind |-> "none", frame |-> NoCFrame]

\* The frame codecs are not in use.
InitCIdle ==
    /\ cin = NoCFrame
    /\ cwire = NoSlice
    /\ cout = NoCOut

NoPack == [sigOk |-> FALSE, verOk |-> FALSE, count |-> [hi |-> 0, lo |-> 0],
           slot |-> 0, intbits |-> 0, recs |-> <<>>, sentinel |-> FALSE,
           fw |-> [buf |-> <<>>, n |-> 0]]

\* The firmware pack decoder is not running.
InitFIdle ==
    /\ pack = NoPack
    /\ ppc = "idle"
    /\ pidx = 0
    /\ pslots = 0
    /\ ptr = 0
    /\ pout = <<>>

NoValue == [go |-> "none", v |-> 0]
NoOid == [oid |-> <<0, 0, 0>>, offset |-> 0, length |-> 0, type |-> 0,
          val |-> NoValue, withValue |-> FALSE, spare |-> 0]
NoOWire == [kind |-> "none", buf |-> <<>>, n |-> 0]
NoOOut == [kind |-> "none", val |-> NoValue]

\* The OID codec is not in use.
InitOidIdle ==
    /\ oin = NoOid
    /\ owire = NoOWire
    /\ oout = NoOOut

NoLine == [line |-> <<>>, kind |-> "none", typ |-> 0, body |-> <<>>]
NoSOut == [kind |-> "none", typ |-> 0, data |-> <<>>]

\* The S-record parser is not in use.
InitSIdle ==
    /\ sin = NoLine
    /\ sout = NoSOut

\* Neither the codecs nor the decoder are in use.
InitPIdle == InitCIdle /\ InitFIdle /\ InitOidIdle /\ InitSIdle

\* The operational engine is not running during DownloadAndBoot.
InitOIdle ==
    /\ seqNo = 0
    /\ curReq = NoReq
    /\ curReqTimer = "stopped"
    /\ elapsed = 0
    /\ age = 0
    /\ rxMsgChan = <<>>
    /\ rxClosed = FALSE
    /\ exchReqClosed = FALSE
    /\ exchResClosed = FALSE
    /\ exchMutex = 0
    /\ listenerPc = "init"
    /\ reactorPc = "init"
    /\ pendingRes = NoMsg
    /\ pc = [c \in Callers |-> "idle"]
    /\ op = [c \in Callers |-> "none"]
    /\ last = [c \in Callers |-> NoOutcome]
    /\ dial = NoDial
    /\ sent = {}
    /\ origlog = <<>>
    /\ lasttx = NoTx
    /\ nframes = 0
    /\ nevents = 0
    /\ ncalls = 0

NextB ==
    \/ BStart /\ UNCHANGED <<ovars, pvars>>
    \/ \E sendOk \in BOOLEAN : BSend(sendOk) /\ UNCHANGED <<ovars, pvars>>
    \/ BTimeout /\ UNCHANGED <<ovars, pvars>>
    \/ BReadError /\ UNCHANGED <<ovars, pvars>>
    \/ \E f \in BFrames : BRead(f) /\ UNCHANGED <<ovars, pvars>>

InitBoot == InitOIdle /\ InitB /\ InitPIdle

SpecB == InitBoot /\ [][NextB]_vars

\* The bootloader engine is not running during the operational session.
InitBIdle ==
    /\ bseqNo = 0
    /\ baddr = "none"
    /\ bstep = "none"
    /\ brec = 0
    /\ bi = 0
    /\ bwait = FALSE
    /\ breq = NoBReq
    /\ bres = NoBRes
    /\ bin = NoBIn
    /\ firmware = <<>>
    /\ btxlog = <<>>
    /\ osn = 0
    /\ bdone = <<>>

-----------------------------------------------------------------------------
(* The operational session *)

Init == InitO /\ InitBIdle /\ InitPIdle

Next ==
    \/ \E f \in DeviceFrames(EventFrames, SessionKinds, SentSeqs) : ListenerRead(f) /\ UNCHANGED <<bvars, pvars>>
    \/ ListenerError /\ UNCHANGED <<bvars, pvars>>
    \/ ReactorFrame /\ UNCHANGED <<bvars, pvars>>
    \/ ReactorQueueClosed /\ UNCHANGED <<bvars, pvars>>
    \/ \E c \in Callers, sendOk \in BOOLEAN : ReactorRequest(c, sendOk) /\ UNCHANGED <<bvars, pvars>>
    \/ \E sendOk \in BOOLEAN : ReactorTimer(sendOk) /\ UNCHANGED <<bvars, pvars>>
    \/ Tick(MaxAge) /\ UNCHANGED <<bvars, pvars>>
    \/ \E c \in Callers, o \in {"dial1", "write"} : Call(c, o) /\ UNCHANGED <<bvars, pvars>>
    \/ \E c \in Callers : Lock(c) /\ UNCHANGED <<bvars, pvars>>
    \/ \E c \in Callers : SendOnClosed(c) /\ UNCHANGED <<bvars, pvars>>
    \/ \E c \in Callers : Receive(c) /\ UNCHANGED <<bvars, pvars>>
    \/ \E c \in Callers : ReceiveClosed(c) /\ UNCHANGED <<bvars, pvars>>

Spec == Init /\ [][Next]_vars

\* The session on a segment where also frames the decoder does not parse
\* reach the listener.
NextRx ==
    \/ Next
    \/ \E f \in UnparsedFrames : ListenerRead(f) /\ UNCHANGED <<bvars, pvars>>

SpecRx == Init /\ [][NextRx]_vars

\* The API slice: one caller, and a device that sends no events, answers the
\* request written last and uses every status Dial and the MIB calls tell
\* apart.
NextApi ==
    \/ \E f \in DeviceFrames(DisconnectFrames, ApiKinds, LatestSeq) : ListenerRead(f) /\ UNCHANGED <<bvars, pvars>>
    \/ ListenerError /\ UNCHANGED <<bvars, pvars>>
    \/ ReactorFrame /\ UNCHANGED <<bvars, pvars>>
    \/ ReactorQueueClosed /\ UNCHANGED <<bvars, pvars>>
    \/ \E sendOk \in BOOLEAN : ReactorRequest(1, sendOk) /\ UNCHANGED <<bvars, pvars>>
    \/ \E sendOk \in BOOLEAN : ReactorTimer(sendOk) /\ UNCHANGED <<bvars, pvars>>
    \/ Tick(MaxAgeApi) /\ UNCHANGED <<bvars, pvars>>
    \/ \E o \in {"dial1", "read", "write"} : Call(1, o) /\ UNCHANGED <<bvars, pvars>>
    \/ Lock(1) /\ UNCHANGED <<bvars, pvars>>
    \/ SendOnClosed(1) /\ UNCHANGED <<bvars, pvars>>
    \/ Receive(1) /\ UNCHANGED <<bvars, pvars>>
    \/ ReceiveClosed(1) /\ UNCHANGED <<bvars, pvars>>

SpecApi == Init /\ [][NextApi]_vars

-----------------------------------------------------------------------------
(* The frame codecs.  A byte slice is modelled as Go has it: buf is the      *)
(* backing array from the first byte of the slice to its capacity, n is the  *)
(* length.  A message is [proto, typ, seq, status, payload]; the bootloader  *)
(* header has no status, which is 0 in its messages.  Sequence numbers of    *)
(* the operational header stay below 2^31 in the inputs.                     *)

MaxPayloadLen == 41     \* payload bytes of a message given to MarshalBinary
MaxRawLen == 10         \* bytes of a frame received from the network
BufCap == 20            \* modelled capacity of a read buffer (1600 and 1514
                        \* in the source)

MinFrame == 46          \* for buf.Len() < 46
HeaderB == 6            \* data[6 : payloadLen+6]
HeaderO == 8            \* data[8 : payloadLen+8]
TooShortB == 6          \* if len(data) < 6
TooShortO == 7          \* if len(data) < 7
Uint16Modulus == 65536  \* payloadLen is a uint16

\* binary.Write(&buf, binary.BigEndian, v) for a uint16 and a uint32.
BE16(v) == <<(v \div 256) % 256, v % 256>>
BE32(v) == <<(v \div 16777216) % 256, (v \div 65536) % 256,
             (v \div 256) % 256, v % 256>>

\* binary.BigEndian.Uint16(d[i:i+2]) and Uint32(d[i:i+4]), i counted from 0.
Uint16(d, i) == d[i + 1] * 256 + d[i + 2]
Uint32(d, i) == d[i + 1] * 16777216 + d[i + 2] * 65536 + d[i + 3] * 256 + d[i + 4]

Zeros(k) == [i \in 1..k |-> 0]

\* for buf.Len() < 46 { buf.WriteByte(0) }
Pad(b) == IF Len(b) < MinFrame THEN b \o Zeros(MinFrame - Len(b)) ELSE b

\* The length written counts the padding of a short frame as well.
LenFieldPadded(payload) ==
    IF Len(payload) < MinFrame - HeaderO THEN MinFrame - HeaderO ELSE Len(payload)

\* uint16(len(m.Payload))
LenField(payload) == Len(payload) % Uint16Modulus

\* Message.MarshalBinary of the operational protocol: it has no error case.
MarshalBinaryO(m) ==
    [ok |-> TRUE,
     bytes |-> Pad(<<m.typ>> \o BE32(m.seq) \o BE16(LenField(m.payload))
                   \o <<m.status>> \o m.payload)]

\* message.MarshalBinary of the bootloader protocol.
MarshalBinaryB(m) ==
    IF Len(m.payload) > Uint16Modulus - 1
      THEN [ok |-> FALSE, bytes |-> <<>>]
      ELSE [ok |-> TRUE,
            bytes |-> Pad(BE16(m.seq) \o BE16(LenField(m.payload))
                          \o BE16(m.typ) \o m.payload)]

MarshalBinary(m) == IF m.proto = "B" THEN MarshalBinaryB(m) ELSE MarshalBinaryO(m)

\* The slice expression d[low:high] is in range: 0 <= low <= high <= cap(d).
InBounds(d, low, high) == low <= high /\ high <= Len(d.buf)

\* d[low:high]
Slice(d, low, high) == SubSeq(d.buf, low + 1, high)

COk(f) == [kind |-> "ok", frame |-> f]
CError == [kind |-> "error", frame |-> NoCFrame]
CPanic == [kind |-> "panic", frame |-> NoCFrame]

\* ParseMessage of the operational protocol.  payloadLen+8 is computed in
\* uint16; data[7] needs a length of 8; the slice may reach up to the
\* capacity.
ParseMessage(d) ==
    IF d.n < TooShortO THEN CError
    ELSE IF d.n < 8 THEN CPanic
    ELSE LET payloadLen == Uint16(d.buf, 5)
             high == (payloadLen + HeaderO) % Uint16Modulus
         IN  IF ~InBounds(d, HeaderO, high) THEN CPanic
             ELSE COk([proto |-> "O", typ |-> d.buf[1], seq |-> Uint32(d.buf, 1),
                       status |-> d.buf[8], payload |-> Slice(d, HeaderO, high)])

\* parseMessage of the bootloader protocol.
parseMessage(d) ==
    IF d.n < TooShortB THEN CError
    ELSE LET payloadLen == Uint16(d.buf, 2)
             high == (payloadLen + HeaderB) % Uint16Modulus
         IN  IF ~InBounds(d, HeaderB, high) THEN CPanic
             ELSE COk([proto |-> "B", typ |-> Uint16(d.buf, 4), seq |-> Uint16(d.buf, 0),
                       status |-> 0, payload |-> Slice(d, HeaderB, high)])

Parse(d) == IF d.proto = "B" THEN parseMessage(d) ELSE ParseMessage(d)

\* Payloads of the messages marshalled: zeros, a count, and 0xff bytes.
CPayloads ==
    UNION {{Zeros(k), [i \in 1..k |-> i], [i \in 1..k |-> 255]} : k \in 0..MaxPayloadLen}

\* Messages given to MarshalBinary.
CFrames ==
    {[proto |-> "B", typ |-> t, seq |-> q, status |-> 0, payload |-> pl] :
        t \in {20, 258}, q \in {1, 65535}, pl \in CPayloads}
    \cup
    {[proto |-> "O", typ |-> t, seq |-> q, status |-> st, payload |-> pl] :
        t \in {6, 177}, q \in {42, 16909060}, st \in {0, 255}, pl \in CPayloads}

\* Payload lengths a received header declares.
DeclaredLens ==
    {0, 1, 2, 3, BufCap - 8, BufCap - 7, BufCap - 6, BufCap - 5, 65529, 65535}

\* The bytes a device sends for a header declaring len payload bytes.
RawBytes(proto, len) ==
    (IF proto = "B" THEN BE16(1) \o BE16(len) \o BE16(typeAck)
                    ELSE <<TypeReadMIB>> \o BE32(2) \o BE16(len) \o <<StatusOk>>)
    \o [i \in 1..MaxRawLen |-> i]

\* What the read buffer holds behind the bytes received: the listener reads
\* into a fresh buffer, conn.Exchange reuses its buffer for every attempt.
Fills(proto) == IF proto = "B" THEN {0, 170} ELSE {0}

\* buf[:n] after ReadFrom stored the first n bytes of a frame.
CRaw ==
    UNION {{[proto |-> proto,
             buf |-> SubSeq(RawBytes(proto, len), 1, n) \o [i \in 1..(BufCap - n) |-> fill],
             n |-> n] : len \in DeclaredLens, n \in 0..MaxRawLen, fill \in Fills(proto)}
           : proto \in {"B", "O"}}

\* Either a message to marshal and parse back, or a slice as read.
InitC ==
    /\ cout = NoCOut
    /\ \/ cin \in CFrames /\ cwire = NoSlice
       \/ cin = NoCFrame /\ cwire \in CRaw

\* m.MarshalBinary(): buf.Bytes() is taken with its length as capacity, the
\* parser of a marshalled message never reaches beyond the length.
CMarshal ==
    /\ cin # NoCFrame
    /\ cwire = NoSlice
    /\ cout = NoCOut
    /\ LET r == MarshalBinary(cin) IN
         IF r.ok
           THEN /\ cwire' = [proto |-> cin.proto, buf |-> r.bytes, n |-> Len(r.bytes)]
                /\ cout' = cout
           ELSE /\ cwire' = cwire
                /\ cout' = CError
    /\ UNCHANGED cin

\* ParseMessage(data) / parseMessage(data)
CParse ==
    /\ cwire # NoSlice
    /\ cout = NoCOut
    /\ cout' = Parse(cwire)
    /\ UNCHANGED <<cin, cwire>>

NextC ==
    \/ CMarshal /\ UNCHANGED <<ovars, bvars, fvars, oidvars, svars>>
    \/ CParse /\ UNCHANGED <<ovars, bvars, fvars, oidvars, svars>>

InitCodec == InitOIdle /\ InitBIdle /\ InitFIdle /\ InitOidIdle /\ InitSIdle /\ InitC

SpecCodec == InitCodec /\ [][NextC]_vars

-----------------------------------------------------------------------------
(* The firmware pack decoder.  A uint32 of the header is [hi, lo], its two  *)
(* 16-bit halves.  A pack is what main reads: whether signature and version *)
(* are the expected ones, the firmware count, the first metadata slot       *)
(* (1..15) holding the firmware signature (0: none), the width of int of    *)
(* the build, and fw, the de-obfuscated body as the slice fwData.  recs and *)
(* sentinel say what fw was made of.                                        *)

MaxRecords == 2         \* records of a firmware before the sentinel
MaxSlack == 4           \* spare capacity of fwData behind its length

HeaderLen == 512        \* header := make([]byte, 512)
SlotSize == 32          \* numberOfFirmwares*32, header[i*32 : (i*32)+4]
WordSize == 4           \* recordSize := int(record[7]) * 4
PrologueLen == 8        \* record := fwData[ptr : ptr+8]
MaxRecLen == 255        \* if recLen > 255 { panic("record too long") }
IntSignBit == 32768     \* the sign bit of a 32-bit int, in the high half

Sentinel == <<255, 238, 221, 204>>      \* 0xffeeddcc

\* u*32 in uint32.
Mul32(u) ==
    LET l == u.lo * SlotSize IN
    [hi |-> (u.hi * SlotSize + l \div Uint16Modulus) % Uint16Modulus,
     lo |-> l % Uint16Modulus]

\* numberOfFirmwares*32 >= uint32(len(header))
TooMany(u) == LET v == Mul32(u) IN v.hi > 0 \/ v.lo >= HeaderLen

\* i <= int(numberOfFirmwares): with a 32-bit int a count of 2^31 or more
\* is negative.
WithinCount(i, u, intbits) ==
    IF intbits = 32 /\ u.hi >= IntSignBit THEN FALSE
    ELSE u.hi > 0 \/ i <= u.lo

RECURSIVE ByteSum(_, _, _)
\* The sum of the bytes b[i..j] in a byte: var sum byte; sum += b.
ByteSum(b, i, j) ==
    IF i > j THEN 0
    ELSE IF i = j THEN b[i] % 256
    ELSE LET mid == (i + j) \div 2
         IN  (ByteSum(b, i, mid) + ByteSum(b, mid + 1, j)) % 256

\* srec.genericRecord for a 32-bit address: the bytes of the record (count,
\* address, payload, checksum), or the panic of a record too long.
genericRecord(typ, addr, payload) ==
    LET recLen == Len(addr) + Len(payload) + 1
        rec == <<recLen>> \o addr \o payload
    IN  IF typ < 0 \/ typ > 9 \/ recLen > MaxRecLen
          THEN [ok |-> FALSE, typ |-> typ, addr |-> addr, data |-> <<>>, sum |-> 0]
          ELSE [ok |-> TRUE, typ |-> typ, addr |-> addr, data |-> payload,
                sum |-> 255 - ByteSum(rec, 1, Len(rec))]

\* srec.S3(addr, data)
S3(addr, data) == genericRecord(3, addr, data)

\* srec.S0(comment): the comment of main is a constant of 47 bytes.
S0Comment == [ok |-> TRUE, typ |-> 0, addr |-> <<0, 0>>, data |-> <<>>, sum |-> 0]

\* A record of the firmware: address, the four bytes of its word length, and
\* 4 * (the length those bytes denote) data bytes.
FwRecord(k, wl) ==
    [addr |-> <<16, 0, 0, k>>,
     wl |-> wl,
     data |-> [i \in 1..(WordSize * (wl[3] * 256 + wl[4])) |-> (i % 251) + 1]]

\* Word lengths of the inputs: up to 62 words fit an S3 record.
WordLens == {<<0, 0, 0, 0>>, <<0, 0, 0, 1>>, <<0, 0, 0, 62>>, <<0, 0, 0, 63>>,
             <<0, 0, 1, 0>>}

RECURSIVE FwBytes(_)
\* The bytes of a sequence of records.
FwBytes(recs) ==
    IF recs = <<>> THEN <<>>
    ELSE recs[1].addr \o recs[1].wl \o recs[1].data \o FwBytes(Tail(recs))

\* What follows the records: nothing, the sentinel, or the sentinel and more
\* bytes.
FwTails == {<<>>, Sentinel \o <<0, 0, 0, 0>>,
            Sentinel \o <<0, 0, 0, 0>> \o <<16, 0, 0, 9, 0, 0, 0, 1, 1, 2, 3, 4>>}

\* Firmwares: records, a tail, and the spare capacity append left.
FwPacks ==
    {[sigOk |-> TRUE, verOk |-> TRUE, count |-> [hi |-> 0, lo |-> 1], slot |-> 1,
      intbits |-> 64, recs |-> recs, sentinel |-> (tail # <<>>),
      fw |-> [buf |-> FwBytes(recs) \o tail \o Zeros(slack),
              n |-> Len(FwBytes(recs) \o tail)]] :
        recs \in UNION {{[k \in 1..n |-> FwRecord(k, w[k])] : w \in [1..n -> WordLens]}
                        : n \in 0..MaxRecords},
        tail \in FwTails, slack \in {0, MaxSlack}}

\* Firmware counts: around 16, and where 32*N leaves 32 bits.
PackCounts ==
    {[hi |-> 0, lo |-> n] : n \in {0, 1, 2, 15, 16, 17, 65535}}
    \cup {[hi |-> h, lo |-> l] : h \in {1, 2048, 32768, 65535}, l \in {0, 1, 16}}

\* Headers: every combination of signature, version, count, matching slot
\* and int width, over an empty firmware.
HeaderPacks ==
    {[sigOk |-> so, verOk |-> vo, count |-> c, slot |-> sl, intbits |-> ib,
      recs |-> <<>>, sentinel |-> TRUE,
      fw |-> [buf |-> Sentinel \o <<0, 0, 0, 0>>, n |-> 8]] :
        so \in BOOLEAN, vo \in BOOLEAN, c \in PackCounts, sl \in {0, 1, 15},
        ib \in {32, 64}}

InitF ==
    /\ pack \in FwPacks \cup HeaderPacks
    /\ ppc = "header"
    /\ pidx = 0
    /\ pslots = 0
    /\ ptr = 0
    /\ pout = <<>>

\* The header is read and its signature, version and count are checked.
PHeader ==
    /\ ppc = "header"
    /\ IF ~pack.sigOk THEN ppc' = "badsig" /\ pidx' = pidx
       ELSE IF ~pack.verOk THEN ppc' = "badver" /\ pidx' = pidx
       ELSE IF TooMany(pack.count) THEN ppc' = "toomany" /\ pidx' = pidx
       ELSE ppc' = "scan" /\ pidx' = 1
    /\ UNCHANGED <<pack, pslots, ptr, pout>>

\* One iteration of the scan of the metadata slots.
PScan ==
    /\ ppc = "scan"
    /\ IF ~WithinCount(pidx, pack.count, pack.intbits)
         THEN ppc' = "notfound" /\ UNCHANGED <<pidx, pslots>>
       ELSE IF pidx * SlotSize + 4 > HeaderLen       \* header[i*32 : (i*32)+4]
         THEN ppc' = "panic" /\ UNCHANGED <<pidx, pslots>>
       ELSE /\ pslots' = pslots + 1
            /\ IF pack.slot = pidx
                 THEN ppc' = "body" /\ pidx' = pidx
                 ELSE ppc' = "scan" /\ pidx' = pidx + 1
    /\ UNCHANGED <<pack, ptr, pout>>

\* The body is read and de-obfuscated, the checksums are printed (of
\* fwData[:len(fwData)-4] too), and the S0 record is written.
PBody ==
    /\ ppc = "body"
    /\ IF pack.fw.n < 4
         THEN ppc' = "panic" /\ pout' = pout
         ELSE ppc' = "records" /\ pout' = <<S0Comment>>
    /\ ptr' = 0
    /\ UNCHANGED <<pack, pidx, pslots>>

\* One iteration of the record loop.
PRecord ==
    /\ ppc = "records"
    /\ IF ptr + PrologueLen > pack.fw.n
         THEN ppc' = "done" /\ UNCHANGED <<ptr, pout>>
       ELSE LET record == Slice(pack.fw, ptr, ptr + PrologueLen)
                addr == SubSeq(record, 1, 4)
                recordSize == record[8] * WordSize
                from == ptr + PrologueLen
            IN  IF addr = Sentinel
                  THEN ppc' = "done" /\ UNCHANGED <<ptr, pout>>
                ELSE IF ~InBounds(pack.fw, from, from + recordSize)
                  THEN ppc' = "panic" /\ UNCHANGED <<ptr, pout>>
                ELSE IF ~S3(addr, Slice(pack.fw, from, from + recordSize)).ok
                  THEN ppc' = "panic" /\ UNCHANGED <<ptr, pout>>
                ELSE /\ pout' = Append(pout, S3(addr, Slice(pack.fw, from, from + recordSize)))
                     /\ ptr' = from + recordSize
                     /\ ppc' = "records"
    /\ UNCHANGED <<pack, pidx, pslots>>

NextF ==
    \/ PHeader /\ UNCHANGED <<ovars, bvars, cvars, oidvars, svars>>
    \/ PScan /\ UNCHANGED <<ovars, bvars, cvars, oidvars, svars>>
    \/ PBody /\ UNCHANGED <<ovars, bvars, cvars, oidvars, svars>>
    \/ PRecord /\ UNCHANGED <<ovars, bvars, cvars, oidvars, svars>>

InitFwutil == InitOIdle /\ InitBIdle /\ InitCIdle /\ InitOidIdle /\ InitSIdle /\ InitF

SpecF == InitFwutil /\ [][NextF]_vars

-----------------------------------------------------------------------------
(* The OID codec.  A value is [go, v]: the Go type of the dynamic value and *)
(* the value, strings and byte arrays being sequences of bytes.  Numbers    *)
(* stay below 2^31 in the inputs.  The marshallers return buf.Bytes(),      *)
(* whose capacity is that of the buffer: spare is what it has left behind   *)
(* the bytes written.                                                       *)

MaxOidLength == 3       \* the Length of an OID of the inputs
MaxSpare == 2           \* spare capacity of a marshalled slice
MaxOidRaw == 31         \* bytes of a read response given to ParseOID

TypeUint32 == 0
TypeUint16 == 2
TypeUint8 == 4
TypeString == 6
TypeBool == 7
TypeInvalid == 8
OidRequestSize == 24    \* binary.Size(&req)

\* Two more words, zero, follow the type tag: a wire form of 32 bytes.
OidRequestReserved(o) ==
    BE32(o.oid[1]) \o BE32(o.oid[2]) \o BE32(o.oid[3])
    \o BE32(o.offset) \o BE32(o.length) \o BE32(o.type) \o BE32(0) \o BE32(0)

\* binary.Write(&buf, binary.BigEndian, oidRequest{...})
OidRequest(o) ==
    BE32(o.oid[1]) \o BE32(o.oid[2]) \o BE32(o.oid[3])
    \o BE32(o.offset) \o BE32(o.length) \o BE32(o.type)

OWire(bytes, spare) ==
    [kind |-> "ok", buf |-> bytes \o Zeros(spare), n |-> Len(bytes)]
OWireError == [kind |-> "error", buf |-> <<>>, n |-> 0]
OWirePanic == [kind |-> "panic", buf |-> <<>>, n |-> 0]

\* OID.MarshalBinary
OIDMarshalBinary(o) == OWire(OidRequest(o), o.spare)

\* MarshalOID(o, val): a type assertion on a value of another type panics.
MarshalOID(o) ==
    LET req == OidRequest(o)
        val == o.val
    IN
    IF o.type = TypeUint32 THEN
        IF val.go = "uint32" THEN OWire(req \o BE32(val.v), o.spare) ELSE OWirePanic
    ELSE IF o.type = TypeUint16 THEN
        IF val.go = "uint16" THEN OWire(req \o BE16(val.v), o.spare) ELSE OWirePanic
    ELSE IF o.type = TypeUint8 THEN
        IF val.go = "uint8" THEN OWire(req \o <<val.v>>, o.spare)
        ELSE IF val.go = "bytes" THEN OWire(req \o val.v, o.spare)
        ELSE OWireError
    ELSE IF o.type = TypeString THEN
        IF val.go = "string"
          THEN OWire(req \o val.v
                     \o (IF Len(val.v) < o.length THEN Zeros(o.length - Len(val.v)) ELSE <<>>),
                     o.spare)
          ELSE OWirePanic
    ELSE IF o.type = TypeBool THEN
        IF val.go = "bool" THEN OWire(req \o <<IF val.v THEN 1 ELSE 0>>, o.spare)
        ELSE OWirePanic
    ELSE OWireError

RECURSIVE TrimRight(_)
\* strings.TrimRight(s, "\x00 ")
TrimRight(str) ==
    IF str # <<>> /\ str[Len(str)] \in {0, 32}
      THEN TrimRight(SubSeq(str, 1, Len(str) - 1))
      ELSE str

OOk(go, v) == [kind |-> "ok", val |-> [go |-> go, v |-> v]]
OError == [kind |-> "error", val |-> NoValue]
OPanic == [kind |-> "panic", val |-> NoValue]

\* ParseOID(d): the payload is d[24:]; payload[:k] may reach up to the
\* capacity, payload[0] needs a length of 1.
ParseOID(d) ==
    IF d.n < OidRequestSize THEN OError
    ELSE LET length == Uint32(d.buf, 16)
             type == Uint32(d.buf, 20)
             payload == [buf |-> SubSeq(d.buf, OidRequestSize + 1, Len(d.buf)),
                         n |-> d.n - OidRequestSize]
         IN
         IF type \in {TypeUint32, TypeUint16} THEN
             IF InBounds(payload, 0, 4) THEN OOk("uint32", Uint32(payload.buf, 0))
             ELSE OPanic
         ELSE IF type = TypeUint8 THEN
             IF length = 1
               THEN IF payload.n >= 1 THEN OOk("uint8", payload.buf[1]) ELSE OPanic
               ELSE IF InBounds(payload, 0, length)
                      THEN OOk("bytes", Slice(payload, 0, length)) ELSE OPanic
         ELSE IF type = TypeString THEN
             IF InBounds(payload, 0, length)
               THEN OOk("string", TrimRight(Slice(payload, 0, length))) ELSE OPanic
         ELSE IF type = TypeBool THEN
             IF payload.n >= 1 THEN OOk("bool", payload.buf[1] = 1) ELSE OPanic
         ELSE OError

\* Values given to MarshalOID.
OidValues ==
    {[go |-> "uint32", v |-> n] : n \in {0, 1, 16909060}}
    \cup {[go |-> "uint16", v |-> n] : n \in {0, 1, 258, 32767}}
    \cup {[go |-> "uint8", v |-> n] : n \in {0, 7, 255}}
    \cup {[go |-> "bytes", v |-> b] :
            b \in UNION {{Zeros(k), [i \in 1..k |-> i]} : k \in 0..MaxOidLength}}
    \cup {[go |-> "string", v |-> b] :
            b \in {<<>>, <<97>>, <<97, 32>>, <<97, 98>>, <<32, 97>>, <<97, 0, 98>>}}
    \cup {[go |-> "bool", v |-> b] : b \in BOOLEAN}

\* The Go types of the values MarshalOID is given for an OID type: the type
\* it asserts, the cases of its type switch and one more for uint8, and a
\* uint32 for the types it rejects.
GoTypes(type) ==
    IF type = TypeUint32 THEN {"uint32"}
    ELSE IF type = TypeUint16 THEN {"uint16"}
    ELSE IF type = TypeUint8 THEN {"uint8", "bytes", "string"}
    ELSE IF type = TypeString THEN {"string"}
    ELSE IF type = TypeBool THEN {"bool"}
    ELSE {"uint32"}

\* OIDs with a value for MarshalOID, and OIDs for OID.MarshalBinary.
OidInputs ==
    {[oid |-> id, offset |-> 0, length |-> len, type |-> t, val |-> val,
      withValue |-> TRUE, spare |-> sp] :
        id \in {<<11, 21, 0>>}, len \in 1..MaxOidLength, t \in 0..TypeInvalid,
        val \in OidValues, sp \in {0, MaxSpare}}
    \cup
    {[oid |-> id, offset |-> off, length |-> len, type |-> t, val |-> NoValue,
      withValue |-> FALSE, spare |-> sp] :
        id \in {<<11, 21, 0>>, <<1, 2, 3>>}, off \in {0, 5}, len \in 1..MaxOidLength,
        t \in 0..TypeInvalid, sp \in {0, MaxSpare}}

\* The payload of a read response as ReadMIB hands it to ParseOID: the
\* first n bytes of the wire form of an OID of the given length and type
\* followed by the bytes 1, 2, 3, ..., in a slice with some spare capacity.
OidRaw ==
    {OWire(SubSeq(OidRequest([oid |-> <<11, 21, 0>>, offset |-> 0, length |-> len,
                              type |-> t])
                  \o [i \in 1..(MaxOidRaw + 1) |-> i], 1, n), sp) :
        len \in {1, 2}, t \in 0..TypeInvalid, n \in 0..MaxOidRaw, sp \in {0, MaxSpare}}

\* The inputs MarshalOID is called with: a value of a Go type the OID type
\* admits, or a uint32 for a type it rejects, or a value of another type for
\* uint32.  Or a read response for ParseOID.
InitOid ==
    /\ oout = NoOOut
    /\ \/ /\ oin \in {o \in OidInputs :
                       o.withValue => \/ o.val.go \in GoTypes(o.type)
                                      \/ o.type = TypeUint32 /\ o.val.go = "uint16"}
          /\ owire = NoOWire
       \/ /\ oin = NoOid
          /\ owire \in OidRaw

\* o.MarshalBinary() or MarshalOID(o, val)
OMarshal ==
    /\ oin # NoOid
    /\ owire = NoOWire
    /\ owire' = (IF oin.withValue THEN MarshalOID(oin) ELSE OIDMarshalBinary(oin))
    /\ UNCHANGED <<oin, oout>>

\* ParseOID of the marshalled bytes.
OParse ==
    /\ owire.kind = "ok"
    /\ oout = NoOOut
    /\ oout' = ParseOID(owire)
    /\ UNCHANGED <<oin, owire>>

NextOid ==
    \/ OMarshal /\ UNCHANGED <<ovars, bvars, cvars, fvars, svars>>
    \/ OParse /\ UNCHANGED <<ovars, bvars, cvars, fvars, svars>>

InitOidCodec == InitOIdle /\ InitBIdle /\ InitCIdle /\ InitFIdle /\ InitSIdle /\ InitOid

SpecOid == InitOidCodec /\ [][NextOid]_vars

-----------------------------------------------------------------------------
(* The S-record parser.  A line is a sequence of characters, each a string  *)
(* of length one.  An input is [line, kind, typ, body]: the line and what   *)
(* it was made from, a record of type typ whose bytes between the byte      *)
(* count and the checksum are body, and the way the line departs from the   *)
(* record's text.                                                           *)

MaxSrecData == 2        \* data bytes of a record of the inputs

MinRecordLen == 10      \* if len(record) < 10
ByteModulus == 256      \* var gotChecksum byte

UpperHex == <<"0", "1", "2", "3", "4", "5", "6", "7", "8", "9",
              "A", "B", "C", "D", "E", "F">>
LowerHex == <<"0", "1", "2", "3", "4", "5", "6", "7", "8", "9",
              "a", "b", "c", "d", "e", "f">>

\* The value of a hexadecimal digit, 16 for any other character.
HexVal(c) ==
    IF \E i \in 1..16 : UpperHex[i] = c THEN (CHOOSE i \in 1..16 : UpperHex[i] = c) - 1
    ELSE IF \E i \in 1..16 : LowerHex[i] = c THEN (CHOOSE i \in 1..16 : LowerHex[i] = c) - 1
    ELSE 16

\* strconv.Atoi of one character: a decimal digit, or an error (-1).
Atoi(c) == IF HexVal(c) < 10 THEN HexVal(c) ELSE -1

\* fmt.Sprintf("%X", b): two upper-case digits for each byte.
HexString(b) ==
    [i \in 1..(2 * Len(b)) |->
        IF i % 2 = 1 THEN UpperHex[(b[(i + 1) \div 2] \div 16) + 1]
                     ELSE UpperHex[(b[i \div 2] % 16) + 1]]

\* The bitwise NOT of the 8-bit sum of the bytes b.
Checksum(b) == (ByteModulus - 1) - ByteSum(b, 1, Len(b))

\* The text genericRecord prints for a record of type typ with the bytes body
\* (address and payload) behind the byte count: fmt.Sprintf("S%d%X\n", ...),
\* here without the line terminator.
RecordText(typ, body) ==
    LET rec == <<Len(body) + 1>> \o body
    IN  <<"S", UpperHex[typ + 1]>> \o HexString(rec \o <<Checksum(rec)>>)

\* The checksum is not compared.
ChecksumAny(count, payload) == TRUE

\* expectedCksum == gotChecksum: the last byte of the payload is the NOT of
\* the sum of the byte count and the bytes before it.
ChecksumOk(count, payload) ==
    payload[Len(payload)] = Checksum(<<count>> \o SubSeq(payload, 1, Len(payload) - 1))

\* The payload is returned with its checksum byte.
NotStripped(payload) == payload

\* payload[:len(payload)-1]
Stripped(payload) == SubSeq(payload, 1, Len(payload) - 1)

SOk(typ, data) == [kind |-> "ok", typ |-> typ, data |-> data]
SError == [kind |-> "error", typ |-> 0, data |-> <<>>]
SPanic == [kind |-> "panic", typ |-> 0, data |-> <<>>]

\* srec.ParseGeneric(record).  hex.Decode goes through record[4:] pair by
\* pair: a pair with a character that is no digit ends it with an error, a
\* valid pair behind the last byte of payload is written out of range, a
\* single character left at the end is an error.
ParseGeneric(record) ==
    IF Len(record) < 1 \/ record[1] # "S" THEN SError
    ELSE IF Len(record) < MinRecordLen THEN SError
    ELSE IF Atoi(record[2]) < 0 THEN SError
    ELSE IF HexVal(record[3]) > 15 \/ HexVal(record[4]) > 15 THEN SError
    ELSE
      LET byteCount == HexVal(record[3]) * 16 + HexVal(record[4])
          src == SubSeq(record, 5, Len(record))
          pairs == 1..(Len(src) \div 2)
          Invalid(k) == HexVal(src[2 * k - 1]) > 15 \/ HexVal(src[2 * k]) > 15
          stops == {k \in pairs : Invalid(k) \/ k > byteCount}
          first == CHOOSE k \in stops : \A j \in stops : k <= j
          payload == [k \in 1..byteCount |->
                        HexVal(src[2 * k - 1]) * 16 + HexVal(src[2 * k])]
      IN
      IF 2 * byteCount > Len(record) - 4 THEN SError
      ELSE IF stops # {} THEN (IF Invalid(first) THEN SError ELSE SPanic)
      ELSE IF Len(src) % 2 = 1 THEN SError
      ELSE IF byteCount = 0 THEN SPanic             \* payload[:len(payload)-1]
      ELSE IF ~ChecksumOk(byteCount, payload) THEN SError
      ELSE SOk(Atoi(record[2]), Stripped(payload))

\* The comment of the record of the package's test.
TestComment ==
    <<71, 101, 110, 101, 114, 97, 116, 101, 100, 32, 102, 114, 111, 109, 32,
     102, 105, 114, 109, 119, 97, 114, 101, 95, 112, 97, 99, 107, 97, 103,
     101, 46, 98, 32, 98, 121, 32, 101, 98, 109, 45, 117, 116, 105, 108>>

\* Bodies of the records of the inputs: an address of the size of the type
\* and some data.
SrecBodies(typ) ==
    IF typ = 0 THEN {<<0, 0>> \o TestComment, <<0, 0>>, <<0, 0, 97>>, <<0, 0, 97, 98>>}
    ELSE {<<16, 0, 0, a>> \o d :
            a \in {0, 255},
            d \in UNION {{Zeros(k), [i \in 1..k |-> 250 + i]} : k \in 0..MaxSrecData}}

\* The line with the byte behind position i (a pair of digits) replaced by
\* the byte v.
WithByte(line, i, v) ==
    [j \in 1..Len(line) |->
        IF j = i + 1 THEN UpperHex[(v \div 16) + 1]
        ELSE IF j = i + 2 THEN UpperHex[(v % 16) + 1]
        ELSE line[j]]

\* The byte written at the end of the text of a record.
LastByte(line) == HexVal(line[Len(line) - 1]) * 16 + HexVal(line[Len(line)])

\* The lines made from the record of type typ and bytes body: its text, the
\* text with another checksum byte, with another byte count, with the line
\* terminator, with one more byte, in lower case, with a character that is
\* no digit, cut short, and without its first character.
SrecLines(typ, body) ==
    LET text == RecordText(typ, body)
        In(kind, line) == [line |-> line, kind |-> kind, typ |-> typ, body |-> body]
    IN  {In("valid", text)}
        \cup {In("badsum", WithByte(text, Len(text) - 2, (LastByte(text) + d) % ByteModulus)) :
                d \in {1, 16, 128, 255}}
        \cup {In("badcount", WithByte(text, 2, (Len(body) + 1 + d) % ByteModulus)) :
                d \in {1, 255}}
        \cup {In("zerocount", WithByte(text, 2, 0))}
        \cup {In("newline", text \o <<"\n">>)}
        \cup {In("extra", text \o <<"0", "0">>)}
        \cup {In("lower", [j \in 1..Len(text) |->
                             IF HexVal(text[j]) < 16 THEN LowerHex[HexVal(text[j]) + 1]
                             ELSE text[j]])}
        \cup {In("nohex", [j \in 1..Len(text) |-> IF j = 7 THEN "G" ELSE text[j]])}
        \cup {In("notype", [j \in 1..Len(text) |-> IF j = 2 THEN "A" ELSE text[j]])}
        \cup {In("short", SubSeq(text, 1, 9))}
        \cup {In("noprefix", Tail(text))}

SrecInputs ==
    UNION {SrecLines(typ, body) : typ \in {0}, body \in SrecBodies(0)}
    \cup UNION {SrecLines(typ, body) : typ \in {3, 7}, body \in SrecBodies(3)}

InitS ==
    /\ sin \in SrecInputs
    /\ sout = NoSOut

\* srec.ParseGeneric(line)
SParse ==
    /\ sin # NoLine
    /\ sout = NoSOut
    /\ sout' = ParseGeneric(sin.line)
    /\ UNCHANGED sin

NextS ==
    \/ SParse /\ UNCHANGED <<ovars, bvars, cvars, fvars, oidvars>>

InitSrec == InitOIdle /\ InitBIdle /\ InitCIdle /\ InitFIdle /\ InitOidIdle /\ InitS

SpecS == InitSrec /\ [][NextS]_vars

-----------------------------------------------------------------------------
(* Properties of the operational session *)

\* Callers whose request the reactor has accepted and that have not yet been
\* handed a response or a failure.
InFlight == {c \in Callers : pc[c] = "recv"}

\* Caller c waits at a point of Exchange that nothing can release any more.
BlockedForever(c) ==
    \/ pc[c] = "recv" /\ reactorPc \in {"done", "drain"} /\ ~exchResClosed
    \/ pc[c] = "send" /\ reactorPc \in {"done", "drain"} /\ ~exchReqClosed
    \/ pc[c] = "send" /\ reactorPc = "deliver" /\ exchMutex = c

\* C1: at most one request is in flight at any time, whatever the number of
\* concurrent callers: no request is accepted by the reactor while the caller
\* of an earlier accepted request still awaits its response or failure.
C1_SingleInFlight == Cardinality(InFlight) <= 1

\* A second caller is held at the mutex while a later request is in flight.
C1_Witness ==
    \E c, d \in Callers :
        c # d /\ pc[c] = "recv" /\ pc[d] = "lock" /\ Len(origlog) >= 2

C3_EveryCallerNotified ==
    \A c \in Callers : pc[c] = "recv" => ~BlockedForever(c)

\* C4 (as claimed): once the receiver has seen a read error and the reactor has
\* closed the response channel, no Exchange call is left blocked and none has
\* crashed.
C4_ClosedSessionReturns ==
    (rxClosed /\ exchResClosed) =>
        \A c \in Callers : ~BlockedForever(c) /\ pc[c] # "panic"

\* The reactor takes the expired timer: the step of case <-curReqTimer.C.
TimerStep == reactorPc = "select" /\ curReqTimer = "fired" /\ curReqTimer' # "fired"

\* The step wrote the in-flight frame again and re-armed the timer, leaving
\* the counter and the slot alone.
Resent ==
    /\ lasttx' = [seq |-> curReq.seq, orig |-> FALSE, n |-> lasttx.n + 1]
    /\ curReqTimer' = "armed"
    /\ seqNo' = seqNo
    /\ curReq' = curReq
    /\ reactorPc' = "select"

\* The step gave up: nil goes to the caller and the timer stays unarmed.
GaveUp ==
    /\ lasttx' = lasttx
    /\ curReqTimer' = "stopped"
    /\ reactorPc' = "deliver"
    /\ pendingRes' = NoMsg
    /\ seqNo' = seqNo

\* A request is in flight, its caller waits, and the reactor has neither
\* taken a response for it nor given up.
Unanswered ==
    /\ curReq # NoReq
    /\ reactorPc = "select"
    /\ pc[curReq.owner] = "recv"

\* The reactor hands a response to a caller: the caller leaves Exchange with
\* exactly that frame and the reactor holds it no longer.
HandsOver ==
    (reactorPc = "deliver" /\ pendingRes # NoMsg /\ reactorPc' # "deliver") =>
        /\ pendingRes' = NoMsg
        /\ \E c \in Callers :
              /\ pc[c] = "recv" /\ pc'[c] # "recv"
              /\ \/ last'[c].res = pendingRes
                 \/ op[c] = "dial1" /\ dial'.first = pendingRes.status
              /\ \A d \in Callers \ {c} : pc'[d] = pc[d] /\ last'[d] = last[d]

-----------------------------------------------------------------------------
(* Properties of Dial, ReadMIB and WriteMIB (SpecApi) *)

\* C6: Dial succeeds exactly when the first response has status 228 or 225,
\* or it has status 224 and the second response has status 228 or 225; a
\* second Connect follows a Question only; any other status of the first or
\* of the second response makes Dial return a failure, as does an error of
\* Exchange; Dial makes at most two connect calls.
C6_DialOutcome ==
    /\ dial.connects <= 2
    /\ dial.connects = 2 => dial.first = 224
    /\ dial.result # "none" =>
         (dial.result = "ok" <=>
            \/ dial.first \in {228, 225}
            \/ dial.first = 224 /\ dial.second \in {228, 225})
    /\ (dial.first >= 0 /\ dial.first \notin {224, 225, 228}) => dial.result = "failed"
    /\ (dial.second >= 0 /\ dial.second \notin {225, 228}) => dial.result = "failed"
    /\ (dial.first = -2 \/ dial.second = -2) => dial.result = "error"
    /\ dial.result \in {"failed", "error"} => pc[1] = "idle"

\* Dial succeeded on its second Connect, after a Question.
C6_Witness == dial.result = "ok" /\ dial.first = 224 /\ dial.second = 225

\* C7 (as claimed): ReadMIB returns a value only for a response of type
\* ReadMIB (6) with status OK, WriteMIB succeeds only for a response of type
\* WriteMIB (7) with status OK.
C7_TypeAndStatusChecked ==
    \A c \in Callers :
        /\ (last[c].op = "read" /\ last[c].out = "value") =>
              (last[c].res.typ = 6 /\ last[c].res.status = 0)
        /\ (last[c].op = "write" /\ last[c].out = "ok") =>
              (last[c].res.typ = 7 /\ last[c].res.status = 0)

-----------------------------------------------------------------------------
(* Properties of the bootloader engine (SpecB) *)

RECURSIVE S3From(_)
\* The S3 lines of the firmware source from line i on, in source order.
S3From(i) ==
    IF i > Len(firmware) THEN <<>>
    ELSE IF firmware[i] = "S3" THEN <<i>> \o S3From(i + 1)
    ELSE S3From(i + 1)

\* The requests of a complete download, in order: <<type, line>>.
Plan ==
    <<<<1, 0>>, <<17, 0>>>>
    \o [k \in 1..Len(S3From(1)) |-> <<18, S3From(1)[k]>>]
    \o <<<<19, 0>>>>

\* Transmissions of exchange x so far.
Tries(x) == Cardinality({k \in 1..Len(btxlog) : btxlog[k].x = x})

\* Exchange y has returned a response DownloadAndBoot takes as success.
ReturnedSuccess(y) ==
    \E k \in 1..Len(bdone) :
        /\ bdone[k].x = y
        /\ bdone[k].kind = "response"
        /\ bdone[k].frame.typ = (IF bdone[k].typ = 1 THEN 2 ELSE 20)
        /\ bdone[k].frame.st = 0

Returned(y) == \E k \in 1..Len(bdone) : bdone[k].x = y

\* C8: the requests go out in the order AssociateRequest, DownloadBegin, one
\* DownloadRecord per S3 line in source order, DownloadEnd; a frame of a later
\* step is on the wire only after every earlier exchange returned success;
\* at most one transmitted request has not yet returned.
C8_StepOrder ==
    /\ \A i \in 1..Len(btxlog) :
         /\ btxlog[i].x \in 1..Len(Plan)
         /\ btxlog[i].typ = Plan[btxlog[i].x][1]
         /\ (btxlog[i].typ = 18 => btxlog[i].rec = Plan[btxlog[i].x][2])
         /\ \A y \in 1..(btxlog[i].x - 1) : ReturnedSuccess(y)
    /\ \A i, j \in 1..Len(btxlog) : i < j => btxlog[i].x <= btxlog[j].x
    /\ Cardinality({btxlog[i].x : i \in 1..Len(btxlog)}
                   \ {bdone[k].x : k \in 1..Len(bdone)}) <= 1

\* A download of a source with a skipped line before an S3 line completed.
C8_Witness ==
    /\ bstep = "done"
    /\ firmware = <<"S0", "S3">>
    /\ Len(btxlog) > Len(bdone)

\* A step of conn.Exchange out of ReadFrom: a matching response ends the
\* exchange at once with that response; a deadline expiry leads to the next
\* attempt, or after the fifth to the timed-out failure.
ReadStepOk ==
    (Exchanging /\ bwait) =>
        /\ (bin'.kind = "frame" /\ bin'.seq = breq.seq) =>
              /\ Len(bdone') = Len(bdone) + 1
              /\ bres'.kind = "response"
              /\ bres'.frame.seq = breq.seq
              /\ btxlog' = btxlog
        /\ (bin'.kind = "deadline" /\ bi + 1 < 5) =>
              /\ bi' = bi + 1 /\ ~bwait' /\ bdone' = bdone /\ bstep' = bstep
        /\ (bin'.kind = "deadline" /\ bi + 1 >= 5) =>
              /\ bres'.kind = "timeout" /\ bstep' = "failed"

\* C9: an exchange writes its request at most 5 times; every attempt that
\* ended without a result is followed by one more write while fewer than 5
\* were made; the timed-out failure comes after exactly 5 writes and nothing
\* is written after it; a response with the request's number ends the
\* exchange at once.
C9_FiveTries ==
    /\ [](/\ \A x \in 1..breq.x : Tries(x) <= 5
          /\ \A k \in 1..Len(bdone) : bdone[k].kind = "timeout" => bdone[k].tries = 5
          /\ Exchanging => /\ Tries(breq.x) = (IF bwait THEN bi + 1 ELSE bi)
                           /\ bi < 5
          /\ bstep = "failed" => Tries(breq.x) = bdone[Len(bdone)].tries)
    /\ [][ReadStepOk]_vars

\* An exchange was answered on a retry and the next one timed out.
C9_Witness ==
    /\ Len(bdone) >= 2
    /\ bdone[1].kind = "response" /\ bdone[1].tries >= 2
    /\ bdone[2].kind = "timeout" /\ bdone[2].tries = 5

\* C10: the counter starts at 1 and is 1 plus the number of exchanges begun,
\* answered or not; every transmission of the k-th exchange, original or
\* retry, carries the number k.
C10_BootSequence ==
    /\ bseqNo = 1 + breq.x
    /\ \A i \in 1..Len(btxlog) : btxlog[i].seq = btxlog[i].x
    /\ \A k \in 1..Len(bdone) : bdone[k].seq = bdone[k].x /\ bdone[k].x = k

\* The second exchange was retried and the third is on the wire.
C10_Witness ==
    /\ breq.x = 3 /\ bwait
    /\ \E i, j \in 1..Len(btxlog) : i < j /\ btxlog[i].x = 2 /\ btxlog[j].x = 2

\* C11: an exchange returns only a response that carries the number of its
\* request; a frame with another number, such as the late or duplicated answer
\* to the exchange before, ends no exchange and is handed to nobody.
C11_OnlyMatchingResponse ==
    /\ [](\A k \in 1..Len(bdone) :
            bdone[k].kind = "response" => bdone[k].frame.seq = bdone[k].seq)
    /\ [][(Exchanging /\ bwait /\ bin'.kind = "frame" /\ bin'.seq # breq.seq)
            => ((bres' = bres /\ Len(bdone') = Len(bdone))
                \/ bres'.kind = "timeout")]_vars

\* The answer to the first exchange was read again during the second one and
\* dropped: the second exchange goes on to its next attempt.
C11_Witness ==
    /\ Len(bdone) = 1 /\ bdone[1].kind = "response"
    /\ Exchanging /\ breq.x = 2 /\ bi >= 1 /\ ~bwait
    /\ bin.kind = "frame" /\ bin.seq = 1

\* C12: every transmission of the AssociateRequest goes to the well-known
\* address, every frame of a later exchange goes to the assigned address, and
\* the destination changes only when the associate exchange returns success.
C12_Destination ==
    /\ [](\A i \in 1..Len(btxlog) :
            btxlog[i].addr = (IF btxlog[i].typ = 1 THEN "default" ELSE "assigned"))
    /\ [][baddr' # baddr =>
            /\ bstep = "assoc" /\ baddr = "default" /\ baddr' = "assigned"
            /\ bres'.kind = "response" /\ bres'.frame.typ = 2
            /\ bres'.frame.st = 0]_vars

\* The AssociateRequest was sent twice and DownloadBegin has gone out.
C12_Witness ==
    /\ Len(btxlog) >= 3
    /\ btxlog[1].typ = 1 /\ btxlog[2].typ = 1
    /\ btxlog[3].typ = 17 /\ btxlog[3].addr = "assigned"

\* Entry k of bdone is a response DownloadAndBoot refuses: its type is not the
\* expected one, or its status byte is not zero.
Refused(k) ==
    /\ bdone[k].kind = "response"
    /\ \/ bdone[k].frame.typ # (IF bdone[k].typ = 1 THEN 2 ELSE 20)
       \/ bdone[k].frame.st > 0

\* C13: a response of an unexpected type or with a nonzero status byte ends
\* DownloadAndBoot with an error: it is the last exchange, and nothing is
\* written to the socket after it.
C13_RefusedResponseEnds ==
    /\ [](\A k \in 1..Len(bdone) : Refused(k) =>
            /\ k = Len(bdone)
            /\ bstep = "failed"
            /\ \A i \in 1..Len(btxlog) : btxlog[i].x <= bdone[k].x
            /\ Tries(bdone[k].x) = bdone[k].tries)
    /\ [][bstep = "failed" => (btxlog' = btxlog /\ bstep' = "failed")]_vars

\* DownloadBegin was answered by an Ack with a nonzero status, and a
\* DownloadRecord by a frame of the wrong type.
C13_Witness ==
    /\ Len(bdone) >= 2
    /\ Refused(Len(bdone))
    /\ bdone[Len(bdone)].typ \in {17, 18}
    /\ bstep = "failed"

-----------------------------------------------------------------------------
(* Properties of the frame codecs (SpecCodec) *)

\* Size of the fixed header of the slice's protocol, as the specification
\* counts it.
HeaderSize(proto) == IF proto = "B" THEN 6 ELSE 8

\* The payload length a slice declares in its header.
Declared(d) == IF d.proto = "B" THEN Uint16(d.buf, 2) ELSE Uint16(d.buf, 5)

\* C14: for both header shapes, the marshalled message is at least 46 bytes
\* long, its length field is the payload's byte count without the padding,
\* the payload follows the header and only zeros follow the payload; parsing
\* it gives back type, sequence number, status and payload.
C14_RoundTrip ==
    /\ (cin # NoCFrame /\ cwire # NoSlice) =>
          LET h == HeaderSize(cin.proto)
              k == Len(cin.payload)
          IN  /\ cwire.n >= 46
              /\ cwire.n = Len(cwire.buf)
              /\ cwire.n = (IF h + k < 46 THEN 46 ELSE h + k)
              /\ Declared(cwire) = k
              /\ SubSeq(cwire.buf, h + 1, h + k) = cin.payload
              /\ \A i \in (h + k + 1)..cwire.n : cwire.buf[i] = 0
    /\ (cin # NoCFrame /\ cout # NoCOut) =>
          /\ cout.kind = "ok"
          /\ cout.frame = cin

\* A short operational message whose payload ends in a zero byte came back
\* from the parser.
C14_Witness ==
    /\ cin.proto = "O" /\ cin.payload = <<0, 0, 0>> /\ cin.status = 255
    /\ cwire.n = 46
    /\ cout.kind = "ok"

\* C15 (as claimed): parsing a received slice whose declared payload length
\* plus the header size exceeds the bytes received gives an error value, for
\* both parsers.
C15_TruncatedPayloadFails ==
    (/\ cin = NoCFrame /\ cout # NoCOut
     /\ cwire.n >= HeaderSize(cwire.proto)
     /\ Declared(cwire) + HeaderSize(cwire.proto) > cwire.n)
        => cout.kind = "error"

\* C16 (as claimed): parsing a received slice shorter than the fixed header
\* (6 bytes for the bootloader, 8 for the operational protocol) gives the
\* too-short error.
C16_TooShortFails ==
    (cin = NoCFrame /\ cout # NoCOut /\ cwire.n < HeaderSize(cwire.proto))
        => cout.kind = "error"

-----------------------------------------------------------------------------
(* Properties of the firmware pack decoder (SpecF) *)

\* C17 (as claimed): a pack with good signature and version whose count N
\* has 32*N >= 512 is rejected for its count, before any metadata slot is
\* read.
C17_CountRejected ==
    (/\ ppc # "header" /\ pack.sigOk /\ pack.verOk
     /\ (pack.count.hi > 0 \/ pack.count.lo >= 16))
        => (ppc = "toomany" /\ pslots = 0)

\* C18 (as claimed): the decoder ends normally at the sentinel, having written
\* after the S0 record one S3 record per record of the firmware, in order,
\* with the record's address and 4 * word-length data bytes; while it runs,
\* what it has written is a prefix of that.
C18_RecordsEmitted ==
    (pack.sentinel /\ ppc \in {"records", "done", "panic"} /\ pout # <<>>) =>
        /\ ppc # "panic"
        /\ Len(pout) - 1 <= Len(pack.recs)
        /\ ppc = "done" => Len(pout) - 1 = Len(pack.recs)
        /\ \A k \in 1..(Len(pout) - 1) :
             /\ pout[k + 1].typ = 3
             /\ pout[k + 1].addr = pack.recs[k].addr
             /\ Len(pout[k + 1].data)
                  = 4 * (pack.recs[k].wl[1] * 16777216 + pack.recs[k].wl[2] * 65536
                         + pack.recs[k].wl[3] * 256 + pack.recs[k].wl[4])
             /\ pout[k + 1].data = pack.recs[k].data

-----------------------------------------------------------------------------
(* Properties of the OID codec (SpecOid) *)

\* The word at position k (from 0) of the marshalled bytes.
Word(k) == Uint32(owire.buf, 4 * k)

\* The payload MarshalOID appends for the value: its length.
PayloadLen ==
    IF oin.val.go = "uint32" THEN 4
    ELSE IF oin.val.go = "uint16" THEN 2
    ELSE IF oin.val.go \in {"uint8", "bool"} THEN 1
    ELSE IF oin.val.go = "bytes" THEN Len(oin.val.v)
    ELSE IF Len(oin.val.v) < oin.length THEN oin.length ELSE Len(oin.val.v)

\* The six words of the wire form are those of the OID.
SixWords ==
    /\ Word(0) = oin.oid[1] /\ Word(1) = oin.oid[2] /\ Word(2) = oin.oid[3]
    /\ Word(3) = oin.offset /\ Word(4) = oin.length /\ Word(5) = oin.type

Compatible ==
    /\ oin.withValue
    /\ \/ oin.type = 0 /\ oin.val.go = "uint32"
       \/ oin.type = 2 /\ oin.val.go = "uint16"
       \/ oin.type = 4 /\ oin.val.go = "uint8" /\ oin.length = 1
       \/ oin.type = 4 /\ oin.val.go = "bytes" /\ oin.length # 1
                       /\ Len(oin.val.v) = oin.length
       \/ oin.type = 6 /\ oin.val.go = "string" /\ Len(oin.val.v) <= oin.length
       \/ oin.type = 7 /\ oin.val.go = "bool"

\* C20 (as claimed): parsing what MarshalOID made of an OID and a compatible
\* value returns that value: strings compared after trimming NULs and spaces
\* on the right, a uint16 returned as a 32-bit number of the same value.
C20_ValueRoundTrip ==
    (Compatible /\ oout # NoOOut) =>
        /\ oout.kind = "ok"
        /\ IF oin.val.go = "string" THEN oout.val.v = TrimRight(oin.val.v)
           ELSE oout.val.v = oin.val.v
        /\ oout.val.go = (IF oin.val.go = "uint16" THEN "uint32" ELSE oin.val.go)

\* C21 (as claimed): ParseOID returns an error for every read response of
\* fewer than 32 bytes, whatever its type tag.
C21_ShortResponseFails ==
    (oin = NoOid /\ oout # NoOOut /\ owire.n < 32) => oout.kind = "error"

-----------------------------------------------------------------------------
(* Properties of the S-record parser (SpecS) *)

\* The bytes the text of a line carries behind the type digit: byte count,
\* address and data, checksum.
LineBytes ==
    [k \in 1..((Len(sin.line) - 2) \div 2) |->
        HexVal(sin.line[2 * k + 1]) * 16 + HexVal(sin.line[2 * k + 2])]

\* C22: a record whose checksum byte is not the bitwise NOT of the 8-bit sum
\* of byte count, address and data is not accepted: a line that differs from
\* the text of a valid record in its checksum byte only gets an error, and
\* every line accepted carries the checksum of its bytes.
C22_BadChecksumFails ==
    /\ (sin.kind = "badsum" /\ sout # NoSOut) => sout.kind = "error"
    /\ sout.kind = "ok" =>
          LET b == LineBytes IN
          b[Len(b)] = 255 - ByteSum(b, 1, Len(b) - 1)

\* The S3 record of two data bytes was refused with its checksum byte changed
\* by one.
C22_Witness ==
    /\ sin.kind = "badsum" /\ sin.typ = 3 /\ Len(sin.body) = 6
    /\ LineBytes[Len(LineBytes)] = (Checksum(<<7>> \o sin.body) + 1) % 256
    /\ sout.kind = "error"

\* C23 (as claimed): parsing the text of a well-formed S0 record gives no
\* error, type 0 and the bytes of the comment.
C23_CommentReturned ==
    (sin.kind = "valid" /\ sin.typ = 0 /\ sout # NoSOut) =>
        /\ sout.kind = "ok"
        /\ sout.typ = 0
        /\ sout.data = SubSeq(sin.body, 3, Len(sin.body))

\* C23 (amended): parsing the text of a well-formed S0 record gives no error,
\* type 0 and the two address bytes 00 00 followed by the bytes of the
\* comment: everything between the byte count and the checksum.
C23_AddressAndComment ==
    (sin.kind = "valid" /\ sin.typ = 0 /\ sout # NoSOut) =>
        /\ sout.kind = "ok"
        /\ sout.typ = 0
        /\ sout.data = <<0, 0>> \o SubSeq(sin.body, 3, Len(sin.body))
        /\ Len(sout.data) = LineBytes[1] - 1

\* The record of the package's test was parsed.
C23_Witness ==
    /\ sin.kind = "valid" /\ sin.typ = 0
    /\ sin.body = <<0, 0>> \o TestComment
    /\ Len(sin.line) = 100
    /\ sout.kind = "ok"

-----------------------------------------------------------------------------
(* Properties of the reactor's frame handling (Spec) *)

\* A frame that is neither an event nor the disconnect notice.
OtherFrame(f) ==
    f.typ \notin {TypeConsoleOutput, TypeLoggerOutput, TypeDeviceDisconnect}

\* The reactor takes the frame at the head of the queue.
FrameStep == reactorPc = "select" /\ rxMsgChan # <<>> /\ rxMsgChan' = Tail(rxMsgChan)

\* The reactor's send on exchRes of a frame is taken by a caller.
ResponseTaken == reactorPc = "deliver" /\ pendingRes # NoMsg /\ reactorPc' # "deliver"

\* C24 (as claimed): for a received frame that is no event and no disconnect
\* notice: with the slot empty it is discarded and nothing is delivered; with
\* the slot occupied it is delivered to the waiting caller, whatever its
\* sequence number, the timer is cancelled and the slot is emptied, and no
\* retransmission follows the delivery.
C24_OtherFrame ==
    /\ [][(FrameStep /\ OtherFrame(Head(rxMsgChan)) /\ curReq = NoReq) =>
            /\ reactorPc' = "select"
            /\ pendingRes' = NoMsg
            /\ UNCHANGED <<curReq, curReqTimer, seqNo, pc, last, lasttx>>]_vars
    /\ [][(FrameStep /\ OtherFrame(Head(rxMsgChan)) /\ curReq # NoReq) =>
            /\ reactorPc' = "deliver"
            /\ pendingRes' = Head(rxMsgChan)]_vars
    /\ []((reactorPc = "deliver" /\ pendingRes # NoMsg) =>
            \E c \in Callers : pc[c] = "recv")
    /\ [][ResponseTaken =>
            /\ curReq' = NoReq
            /\ curReqTimer' = "stopped"
            /\ reactorPc' = "select"]_vars
    /\ [][curReq = NoReq => (lasttx' = lasttx \/ lasttx'.orig)]_vars

\* The frame at the head of the queue is a ConsoleOutput or LoggerOutput event.
EventAtHead ==
    /\ rxMsgChan # <<>>
    /\ Head(rxMsgChan).typ \in {TypeConsoleOutput, TypeLoggerOutput}

\* C25: handling a ConsoleOutput or LoggerOutput frame leaves the in-flight
\* request, the sequence counter and the retransmission timer as they are and
\* delivers nothing on the response channel: the reactor stays in its select,
\* no caller is released, and a request in flight stays in flight with its
\* timer running.
C25_EventsLeaveState ==
    [][(FrameStep /\ EventAtHead) =>
         /\ UNCHANGED <<curReq, seqNo, curReqTimer, elapsed>>
         /\ reactorPc' = "select"
         /\ pendingRes' = pendingRes
         /\ UNCHANGED <<pc, last, lasttx, exchReqClosed, exchResClosed>>]_vars

\* Two events were handled since the request in flight was written; it has
\* been retransmitted, is still in flight, and its timer runs.
C25_Witness ==
    /\ curReq # NoReq
    /\ pc[curReq.owner] = "recv"
    /\ reactorPc = "select"
    /\ nevents >= 2
    /\ lasttx.seq = curReq.seq /\ lasttx.n >= 2
    /\ curReqTimer = "armed"

-----------------------------------------------------------------------------
(* Progress of the reactor.  The goroutines are scheduled fairly: a step of  *)
(* the reactor or of a caller inside Exchange that stays possible is taken,  *)
(* and time passes.  The device and the start of new API calls are free.     *)

ReactorStep ==
    /\ \/ ReactorFrame
       \/ ReactorQueueClosed
       \/ \E c \in Callers, sendOk \in BOOLEAN : ReactorRequest(c, sendOk)
       \/ \E sendOk \in BOOLEAN : ReactorTimer(sendOk)
    /\ UNCHANGED <<bvars, pvars>>

CallerStep(c) ==
    /\ \/ Lock(c)
       \/ SendOnClosed(c)
       \/ Receive(c)
       \/ ReceiveClosed(c)
    /\ UNCHANGED <<bvars, pvars>>

TimeStep == Tick(MaxAge) /\ UNCHANGED <<bvars, pvars>>

FairSpec ==
    /\ Spec
    /\ WF_vars(ReactorStep)
    /\ \A c \in Callers : WF_vars(CallerStep(c))
    /\ WF_vars(TimeStep)

\* A frame waits in the queue of a process that has not crashed and whose
\* reactor has not returned.
FrameWaiting ==
    /\ rxMsgChan # <<>>
    /\ Running
    /\ reactorPc \in {"select", "deliver", "drain"}

\* C26 (as claimed): frames leave the queue in the order the listener read
\* them (it appends at the tail, the reactor takes the head), and the reactor
\* never blocks on caller activity: a frame waiting in the queue of a running
\* reactor is eventually handled, whatever the callers do or fail to do.
C26_NeverBlocked ==
    /\ [][rxMsgChan' # rxMsgChan =>
            \/ rxMsgChan # <<>> /\ rxMsgChan' = Tail(rxMsgChan)
            \/ /\ Len(rxMsgChan') = Len(rxMsgChan) + 1
               /\ SubSeq(rxMsgChan', 1, Len(rxMsgChan)) = rxMsgChan]_vars
    /\ FrameWaiting ~> ~FrameWaiting

\* The reactor has returned after a DeviceDisconnect notice.
Disconnected == reactorPc = "done" /\ exchReqClosed

\* C27: handling a DeviceDisconnect frame closes the request channel and ends
\* the reactor; afterwards nothing is written to the socket (a request in
\* flight is not retransmitted, whatever its timer does), no frame is taken
\* from the queue, and nothing is delivered: no caller leaves Exchange with a
\* response or a failure.
C27_DisconnectEnds ==
    /\ [][(FrameStep /\ Head(rxMsgChan).typ = TypeDeviceDisconnect) =>
            /\ exchReqClosed'
            /\ reactorPc' = "done"
            /\ UNCHANGED <<sent, lasttx, origlog, pendingRes, last, seqNo>>]_vars
    /\ [][Disconnected =>
            /\ Disconnected'
            /\ UNCHANGED <<sent, lasttx, origlog, seqNo, curReq>>
            /\ UNCHANGED <<pendingRes, last, exchResClosed>>
            /\ \/ rxMsgChan' = rxMsgChan
               \/ SubSeq(rxMsgChan', 1, Len(rxMsgChan)) = rxMsgChan
            /\ \A c \in Callers : pc[c] = "recv" => pc'[c] = "recv"]_vars

\* The reactor returned while a request was in flight: its timer has expired
\* since, it was written only once, its caller still waits, and a frame read
\* after the notice stays in the queue.
C27_Witness ==
    /\ Disconnected
    /\ curReq # NoReq
    /\ pc[curReq.owner] = "recv"
    /\ curReqTimer = "fired"
    /\ lasttx.seq = curReq.seq /\ lasttx.n = 1
    /\ rxMsgChan # <<>>

\* The reactor takes a request from exchReq: the step of case req := <-c.exchReq.
RequestStep ==
    /\ reactorPc = "select"
    /\ \E c \in Callers : pc[c] = "send" /\ pc'[c] = "recv"

\* The request taken was written to the socket.
Written == lasttx' # lasttx

\* C28: when marshalling or sending a submitted request fails the reactor
\* sends nil on exchRes, so that Exchange returns an error, and leaves the
\* session as it was: the counter is not incremented, the slot and the timer
\* are not touched; the next request written carries the number the failed
\* one was stamped with.
C28_SendFailure ==
    /\ [][(RequestStep /\ ~Written) =>
            /\ reactorPc' = "deliver" /\ pendingRes' = NoMsg
            /\ UNCHANGED <<seqNo, curReq, curReqTimer, elapsed, sent, origlog>>]_vars
    /\ [][(reactorPc = "deliver" /\ pendingRes = NoMsg /\ reactorPc' # "deliver") =>
            \E c \in Callers :
                /\ pc[c] = "recv" /\ pc'[c] # "recv"
                /\ \/ last'[c].out = "error" /\ last'[c].res = NoMsg
                   \/ op[c] \in {"dial1", "dial2"} /\ dial'.result = "error"
            ]_vars
    /\ [][(RequestStep /\ Written) =>
            /\ lasttx' = [seq |-> seqNo, orig |-> TRUE, n |-> 1]
            /\ seqNo' = seqNo + 1
            /\ curReq'.seq = seqNo
            /\ curReqTimer' = "armed"]_vars

\* Three calls were made: Dial, a write whose send failed and that returned an
\* error, and a write now in flight under the number 3, the one the failed
\* request had been stamped with.
C28_Witness ==
    /\ ncalls = 3 /\ dial.connects = 1 /\ dial.result = "ok"
    /\ Len(origlog) = 2
    /\ \E c, d \in Callers :
          /\ c # d
          /\ pc[c] = "idle" /\ last[c].op = "write" /\ last[c].out = "error"
          /\ pc[d] = "recv" /\ curReq.owner = d /\ curReq.seq = 3
          /\ lasttx = [seq |-> 3, orig |-> TRUE, n |-> 1]
          /\ op[d] = "write"

-----------------------------------------------------------------------------
(* Properties of the Connect requests of Dial (SpecApi) *)

\* A challenge the default handler does not know: 0xdeadbeef.
OtherChallenge == <<222, 173, 190, 239>>

\* The Connect of the k-th connect call of Dial is in the slot: it has been
\* written to the socket and its caller awaits the response.
ConnectInFlight(k) ==
    /\ curReq.typ = 49
    /\ curReq.owner = 1 /\ pc[1] = "recv"
    /\ op[1] = (IF k = 1 THEN "dial1" ELSE "dial2")

\* C29: the first Connect of Dial carries answer 0xFFFFFFFF, flags 0x3C and
\* status 0xFF; a second Connect is sent only after a Question response and
\* carries flags 0, status 0xFF and the answer of the challenge handler to
\* the challenge at payload[4..8] of that response; the default handler
\* answers 0x95743926 with 0x6e6f6961 and any other challenge with 0.
C29_ConnectPayloads ==
    /\ ConnectInFlight(1) =>
          /\ curReq.payload = <<255, 255, 255, 255, 0, 0, 0, 60>>
          /\ curReq.status = 255
    /\ ConnectInFlight(2) =>
          /\ dial.first = 224
          /\ curReq.status = 255
          /\ SubSeq(curReq.payload, 5, 8) = <<0, 0, 0, 0>>
          /\ SubSeq(curReq.payload, 1, 4) =
                (IF dial.challenge = <<149, 116, 57, 38>>
                   THEN <<110, 111, 105, 97>> ELSE <<0, 0, 0, 0>>)
          /\ Len(curReq.payload) = 8
    /\ dial.connects = 2 => dial.first = 224
    /\ dial.first = 224 => dial.challenge \in {KnownChallenge, ZeroWord}
    /\ DefaultChallengeHandler(KnownChallenge) = <<110, 111, 105, 97>>
    /\ \A ch \in {OtherChallenge, ZeroWord, FirstAnswer, KnownAnswer} :
          DefaultChallengeHandler(ch) = <<0, 0, 0, 0>>

\* The second Connect, with the answer to the known challenge, is in flight
\* and has been retransmitted.
C29_Witness ==
    /\ ConnectInFlight(2)
    /\ dial.challenge = KnownChallenge
    /\ SubSeq(curReq.payload, 1, 4) = KnownAnswer
    /\ lasttx.seq = curReq.seq /\ lasttx.n >= 2

-----------------------------------------------------------------------------
(* Properties of the attempts of a bootloader exchange (SpecB) *)

\* ReadFrom returns a frame whose sequence number is not the request's.
MismatchRead ==
    /\ Exchanging /\ bwait
    /\ bin'.kind = "frame" /\ bin'.seq # breq.seq

\* C30 (as claimed): a response with a mismatched sequence number does not
\* end the current attempt: the attempt counter stays, the exchange goes on
\* reading without writing the request again, and it does not return.
C30_MismatchKeepsAttempt ==
    [][MismatchRead =>
         /\ bi' = bi
         /\ bwait'
         /\ bstep' = bstep
         /\ bdone' = bdone]_vars

-----------------------------------------------------------------------------
(* Properties of the key stream of the download (SpecB) *)

\* Frame k is the first transmission of a DownloadRecord request.
FirstOfRecord(k) ==
    /\ btxlog[k].typ = 18
    /\ \A m \in 1..(k - 1) : btxlog[m].x # btxlog[k].x

\* The plaintext of the record of line j: address, word count, data.
PlainRecord(j) ==
    LineAddr(j) \o <<0, 0, 0, Len(LineData(j)) \div 4>> \o LineData(j)

RECURSIVE PlainBefore(_, _)
\* The plaintexts, laid end to end, of the records sent before exchange x:
\* those among the frames from k on, each record counted once.
PlainBefore(x, k) ==
    IF k > Len(btxlog) THEN <<>>
    ELSE (IF FirstOfRecord(k) /\ btxlog[k].x < x
            THEN PlainRecord(btxlog[k].rec) ELSE <<>>) \o PlainBefore(x, k + 1)

\* A DownloadRecord frame is written to the socket.
RecordWritten ==
    /\ Len(btxlog') = Len(btxlog) + 1
    /\ btxlog'[Len(btxlog')].typ = 18

\* C31: the key phase is one running offset over the whole download: byte k
\* (from 0) of the DownloadRecord payloads laid end to end, each being address,
\* word count and data, is the plaintext byte XOR key[k mod 128].  Every
\* record frame written, a retransmission too, carries its plaintext under
\* the key at the offset where the records sent before it end: the offset is
\* not reset between records and advanced neither by skipped lines nor by
\* retransmissions.
C31_KeyStream ==
    [][RecordWritten =>
         \A e \in {btxlog'[Len(btxlog')]} :
           \A plain \in {PlainRecord(e.rec)}, off \in {Len(PlainBefore(e.x, 1))} :
              e.payload = [k \in 1..Len(plain) |->
                             Xor(plain[k], Key[((off + k - 1) % 128) + 1])]]_vars

\* Two records were sent, each of them twice, and the second one reaches
\* past the end of the key.
C31_Witness ==
    /\ firmware = <<"S3", "S3">>
    /\ Cardinality({k \in 1..Len(btxlog) : btxlog[k].typ = 18 /\ btxlog[k].rec = 1}) >= 2
    /\ Cardinality({k \in 1..Len(btxlog) : btxlog[k].typ = 18 /\ btxlog[k].rec = 2}) >= 2
    /\ Len(PlainBefore(btxlog[Len(btxlog)].x, 1)) + Len(btxlog[Len(btxlog)].payload) > 128

-----------------------------------------------------------------------------
(* Properties of the pairing of responses with requests (Spec) *)

\* Caller c takes a response frame from exchRes and Exchange returns it.
ResponseReturned(c) ==
    /\ ResponseTaken
    /\ pc[c] = "recv"
    /\ pc'[c] # "recv"

\* C32 (as claimed): a response returned by Exchange answers that call's own
\* request: it carries the sequence number the reactor stamped on the request
\* of the caller that takes it, so a duplicate response to an earlier,
\* retransmitted request is never the result of a later call.
C32_OwnResponse ==
    [][\A c \in Callers :
          ResponseReturned(c) =>
            /\ curReq.owner = c
            /\ pendingRes.seq = curReq.seq
            /\ last'[c].res.seq = curReq.seq]_vars

-----------------------------------------------------------------------------
(* Properties of the in-flight slot and its timer (Spec) *)

\* Caller c is blocked in Exchange, in res, ok := <-c.exchRes.
Awaiting(c) == c \in Callers /\ pc[c] = "recv"

\* The retransmission timer is running or has expired without being taken.
TimerArmed == curReqTimer # "stopped"

\* C33 (as claimed): whenever the reactor is at its select, the in-flight
\* slot is occupied only while the caller of that request is blocked in
\* Exchange, and the timer is armed exactly when the slot is occupied; so
\* after Exchange has returned, with a value or an error, the slot holds no
\* request of that caller and its timer is disarmed.
C33_SlotAndTimer ==
    reactorPc = "select" =>
        /\ curReq # NoReq => Awaiting(curReq.owner)
        /\ curReq # NoReq <=> TimerArmed

-----------------------------------------------------------------------------
(* Properties of the handling of frames the decoder rejects (SpecRx) *)

\* The reactor takes a frame for which ParseMessage returns an error.
RejectedFrameStep == FrameStep /\ ParseKind(Head(rxMsgChan)) = "error"

\* C34 (as claimed): a received frame the decoder cannot parse is ignored:
\* the reactor goes back to its select, the in-flight request, the sequence
\* counter and the timer are unchanged and nothing is delivered, and the
\* reactor keeps running, so later frames and requests are still handled.
C34_UnparsedIgnored ==
    [][RejectedFrameStep =>
         /\ reactorPc' = "select"
         /\ UNCHANGED <<curReq, seqNo, curReqTimer, pendingRes>>]_vars

====
